---- MODULE Spec2Model ----
(***************************************************************************)
(* Model of pandaproxy::schema_registry::store, the in-memory schema       *)
(* registry store: schemas by id, subjects with their ordered versions,    *)
(* soft and permanent deletion; and of cluster::partition_allocator, which *)
(* places partition replicas on the shards of the registered nodes; of     *)
(* kafka::do_alter_topics_configuration, which validates and applies the   *)
(* topic resources of an alter-configs request; and of                     *)
(* coproc::service, which registers and removes scripts on every shard.    *)
(***************************************************************************)
EXTENDS Integers, Sequences, FiniteSets, TLC

\* ------------------------------------------------------------------ bounds

\* Largest schema id a call may write or allocate.
MaxId == 2
\* Largest version number a call may write or allocate.
MaxVersion == 2
\* Partitions a shard can hold.
MaxCapacity == 2
\* Largest number of partitions in one allocation request.
MaxPartitions == 2
\* Largest replication factor a request asks for.
MaxReplication == 3
\* Largest number of resources in one alter-configs request.
MaxResources == 2
\* Largest script id a coprocessor request names.
MaxScript == 3

\* ------------------------------------------------------------ input domains

Subjects == {"s1", "s2"}
\* The (type, definition) pairs the calls are made with.
Contents ==
    {[type |-> "avro", definition |-> "D1"],
     [type |-> "avro", definition |-> "D2"],
     [type |-> "protobuf", definition |-> "D1"]}
Levels == {"none", "backward"}
Ids == 1..MaxId
Versions == 1..MaxVersion
\* model::node_id values, and the ss::shard_id values of a two-core node.
NodeIds == {1, 2, 3}
ShardIds == {0, 1}
\* The topics that exist, and the names a request can carry.
Topics == {"t1", "t2"}
ResourceNames == Topics \cup {"ghost"}
\* The values a topic property can hold, and those a request can ask for.
PropertyValues == {"delete", "compact"}
RequestValues == PropertyValues \cup {"bad"}
\* The shards that run a coproc::router, and the script ids.
RouterShards == {0, 1, 2}
ScriptIds == 1..MaxScript

\* ------------------------------------------------------------------- state

VARIABLES
    schemas,        \* _schemas: schema_id -> schema_entry, ordered by id
    subjects,       \* _subjects: subject -> subject_entry
    compatibility,  \* _compatibility: the global compatibility level
    nodes,          \* partition_allocator::_state: node_id -> allocation node
    topics,         \* the topic table: topic -> its configured properties
    responses,      \* the responses of the last alter-configs request
    sources         \* coproc::router on each shard: the script ids it runs

vars == <<schemas, subjects, compatibility, nodes, topics, responses, sources>>

\* result<T>: a value or an error_code
Ok(v) == [ok |-> TRUE, value |-> v]
Err(e) == [ok |-> FALSE, error |-> e]

schema_entry(type, definition) == [type |-> type, definition |-> definition]

\* An entry written as active whatever deleted flag was asked for.
subject_version_id_active(version, id, deleted) ==
    [version |-> version, id |-> id, deleted |-> FALSE]

subject_version_id(version, id, deleted) ==
    [version |-> version, id |-> id, deleted |-> deleted]

\* An entry that is created with an override already set.
subject_entry_backward ==
    [compatibility |-> "backward", versions |-> <<>>, deleted |-> FALSE]

\* A default-constructed subject_entry, as _subjects[sub] creates it.
subject_entry ==
    [compatibility |-> "nullopt", versions |-> <<>>, deleted |-> FALSE]

\* ------------------------------------------------------------- algorithms

\* The number of keys instead of the last key.
Max_size(S) == Cardinality(S)

Max(S) == CHOOSE x \in S : \A y \in S : y <= x
Min(S) == CHOOSE x \in S : \A y \in S : x <= y

\* The same binary search with the comparator lhs.version <= rhs: the
\* position after an equal version instead of the position of it.
RECURSIVE upper_bound_from(_, _, _, _)
upper_bound_from(versions, version, first, count) ==
    IF count <= 0
    THEN first
    ELSE LET step == count \div 2
             it == first + step
         IN IF versions[it].version <= version
            THEN upper_bound_from(versions, version, it + 1, count - (step + 1))
            ELSE upper_bound_from(versions, version, first, step)

upper_bound(versions, version) ==
    upper_bound_from(versions, version, 1, Len(versions))

\* std::lower_bound over versions with the comparator lhs.version < rhs:
\* the binary search itself, on the list as it stands.
RECURSIVE lower_bound_from(_, _, _, _)
lower_bound_from(versions, version, first, count) ==
    IF count <= 0
    THEN first
    ELSE LET step == count \div 2
             it == first + step
         IN IF versions[it].version < version
            THEN lower_bound_from(versions, version, it + 1, count - (step + 1))
            ELSE lower_bound_from(versions, version, first, step)

\* The position found; Len(versions) + 1 stands for versions.end().
lower_bound(versions, version) ==
    lower_bound_from(versions, version, 1, Len(versions))

\* A scan that never matches: every insert would allocate a new schema id.
find_schema_none(S, def, type) == {}

\* std::find_if over _schemas, in id order, for an entry of the same type and
\* definition: the ids that match (the first one is the one found).
find_schema(S, def, type) ==
    {i \in DOMAIN S : type = S[i].type /\ def = S[i].definition}

\* A scan that never finds the id: the subject would not be searched for a
\* version that already holds the schema.
find_version_by_id_never(versions, id) == Len(versions) + 1

\* std::find_if over versions for v.id == id: the first match, or end().
find_version_by_id(versions, id) ==
    LET hits == {i \in 1..Len(versions) : versions[i].id = id}
    IN IF hits = {} THEN Len(versions) + 1 ELSE Min(hits)

\* An insert that ignores the position and appends.
vector_push_back(v, pos, x) == Append(v, x)

\* std::vector::insert before position pos.
vector_insert(v, pos, x) ==
    SubSeq(v, 1, pos - 1) \o <<x>> \o SubSeq(v, pos, Len(v))

\* An erase that removes nothing.
vector_erase_none(v, pos) == v

\* std::vector::erase of position pos.
vector_erase(v, pos) ==
    SubSeq(v, 1, pos - 1) \o SubSeq(v, pos + 1, Len(v))

\* An assignment that leaves the map with the assigned key only.
put_only(m, k, x) == [j \in {k} |-> x]

\* map assignment that creates the key when it is absent.
put(m, k, x) == [j \in DOMAIN m \cup {k} |-> IF j = k THEN x ELSE m[j]]

\* An erase that removes nothing.
drop_nothing(m, k) == m

\* map erase.
drop(m, k) == [j \in DOMAIN m \ {k} |-> m[j]]

\* A write that leaves the subject's deleted flag as it was.
undeleted_kept(entry) == entry

\* _subjects[sub]: the entry, default-constructed when sub is absent.
entry_of(U, sub) == IF sub \in DOMAIN U THEN U[sub] ELSE subject_entry

\* subject_entry.deleted = is_deleted::no
undeleted(entry) == [entry EXCEPT !.deleted = FALSE]

\* Only the version numbers of the versions that are not soft-deleted.
version_numbers_not_deleted(versions) ==
    LET keep == SelectSeq(versions, LAMBDA ver : ~ver.deleted)
    IN [i \in 1..Len(keep) |-> keep[i].version]

\* std::transform of the versions to their version numbers.
version_numbers(versions) ==
    [i \in 1..Len(versions) |-> versions[i].version]

\* The same two checks made without regard to include_deleted.
not_deleted_rejected_always(deleted, permanent, inc_del) ==
    ~deleted /\ permanent

soft_deleted_rejected_always(deleted, permanent, inc_del) ==
    deleted /\ ~permanent

\* The two checks delete_subject_version makes on the version it found.
not_deleted_rejected(deleted, permanent, inc_del) ==
    ~deleted /\ permanent /\ ~inc_del

soft_deleted_rejected(deleted, permanent, inc_del) ==
    deleted /\ ~permanent /\ ~inc_del

\* ---------------------------------------------------------- private parts

\* An allocation at the last key itself, without the increment.
insert_schema_at_last(S, def, type) ==
    LET hits == find_schema(S, def, type)
    IN IF hits # {}
       THEN [schemas |-> S, id |-> Min(hits), inserted |-> FALSE]
       ELSE LET id == IF DOMAIN S = {} THEN 1 ELSE Max(DOMAIN S)
            IN [schemas |-> put(S, id, schema_entry(type, def)),
                id |-> id, inserted |-> id \notin DOMAIN S]

insert_schema(S, def, type) ==
    LET hits == find_schema(S, def, type)
    IN IF hits # {}
       THEN [schemas |-> S, id |-> Min(hits), inserted |-> FALSE]
       ELSE LET id == IF DOMAIN S = {} THEN 1 ELSE Max(DOMAIN S) + 1
            IN [schemas |-> put(S, id, schema_entry(type, def)),
                id |-> id, inserted |-> TRUE]

\* try_emplace in place of insert_or_assign: an existing id keeps its schema.
upsert_schema_keep(S, id, def, type) ==
    [schemas |-> IF id \in DOMAIN S THEN S
                 ELSE put(S, id, schema_entry(type, def)),
     inserted |-> id \notin DOMAIN S]

upsert_schema(S, id, def, type) ==
    [schemas |-> put(S, id, schema_entry(type, def)),
     inserted |-> id \notin DOMAIN S]

\* One more than the number of versions instead of the last version number.
next_version_by_size(versions) == Len(versions) + 1

\* The version given to an appended entry.
next_version(versions) ==
    IF versions = <<>> THEN 1 ELSE versions[Len(versions)].version + 1

insert_subject(U, sub, id) ==
    LET entry == undeleted(entry_of(U, sub))
        versions == entry.versions
        v_it == find_version_by_id(versions, id)
    IN IF v_it # Len(versions) + 1
       THEN LET inserted == versions[v_it].deleted
            IN [subjects |->
                    put(U, sub,
                        [entry EXCEPT !.versions[v_it].deleted = FALSE]),
                version |-> versions[v_it].version,
                inserted |-> inserted]
       ELSE LET version == next_version(versions)
            IN [subjects |->
                    put(U, sub,
                        [entry EXCEPT !.versions =
                            Append(versions,
                                   subject_version_id(version, id, FALSE))]),
                version |-> version,
                inserted |-> TRUE]

\* An upsert that stores its deleted argument in the subject's flag as well.
upsert_subject_flagged(U, sub, version, id, deleted) ==
    LET entry == [entry_of(U, sub) EXCEPT !.deleted = deleted]
        versions == entry.versions
        v_it == lower_bound(versions, version)
    IN IF v_it # Len(versions) + 1 /\ versions[v_it].version = version
       THEN [subjects |->
                put(U, sub,
                    [entry EXCEPT !.versions[v_it] =
                        subject_version_id(version, id, deleted)]),
             inserted |-> FALSE]
       ELSE [subjects |->
                put(U, sub,
                    [entry EXCEPT !.versions =
                        vector_insert(versions, v_it,
                                      subject_version_id(version, id, deleted))]),
             inserted |-> TRUE]

upsert_subject(U, sub, version, id, deleted) ==
    LET entry == undeleted(entry_of(U, sub))
        versions == entry.versions
        v_it == lower_bound(versions, version)
    IN IF v_it # Len(versions) + 1 /\ versions[v_it].version = version
       THEN [subjects |->
                put(U, sub,
                    [entry EXCEPT !.versions[v_it] =
                        subject_version_id(version, id, deleted)]),
             inserted |-> FALSE]
       ELSE [subjects |->
                put(U, sub,
                    [entry EXCEPT !.versions =
                        vector_insert(versions, v_it,
                                      subject_version_id(version, id, deleted))]),
             inserted |-> TRUE]

\* ------------------------------------------------------- public operations

insert(S, U, sub, def, type) ==
    LET s == insert_schema(S, def, type)
        u == insert_subject(U, sub, s.id)
    IN [schemas |-> s.schemas, subjects |-> u.subjects,
        res |-> [version |-> u.version, id |-> s.id, inserted |-> u.inserted]]

\* An upsert that writes the subject version and leaves the schema map alone.
upsert_subject_only(S, U, sub, def, type, id, version, deleted) ==
    LET u == upsert_subject(U, sub, version, id, deleted)
    IN [schemas |-> S, subjects |-> u.subjects, res |-> u.inserted]

upsert(S, U, sub, def, type, id, version, deleted) ==
    LET s == upsert_schema(S, id, def, type)
        u == upsert_subject(U, sub, version, id, deleted)
    IN [schemas |-> s.schemas, subjects |-> u.subjects, res |-> u.inserted]

get_schema(S, id) ==
    IF id \notin DOMAIN S
    THEN Err("schema_id_not_found")
    ELSE Ok([id |-> id, type |-> S[id].type, definition |-> S[id].definition])

get_subject_schema(S, U, sub, version, inc_del) ==
    IF sub \notin DOMAIN U
    THEN Err("subject_not_found")
    ELSE IF U[sub].deleted /\ ~inc_del
    THEN Err("subject_not_found")
    ELSE LET versions == U[sub].versions
             v_it == lower_bound(versions, version)
         IN IF v_it = Len(versions) + 1 \/ versions[v_it].version # version
            THEN Err("subject_version_not_found")
            ELSE LET s == get_schema(S, versions[v_it].id)
                 IN IF ~s.ok
                    THEN s
                    ELSE Ok([sub |-> sub,
                             version |-> versions[v_it].version,
                             id |-> versions[v_it].id,
                             type |-> s.value.type,
                             definition |-> s.value.definition,
                             deleted |-> versions[v_it].deleted])

\* A listing that ignores include_deleted and returns every subject.
get_subjects_all(U, inc_del) == DOMAIN U

\* The result is a vector in the hash map's iteration order, which the code
\* does not fix: the subjects returned, as a set.
get_subjects(U, inc_del) ==
    {sub \in DOMAIN U : inc_del \/ ~U[sub].deleted}

get_versions(U, sub, inc_del) ==
    IF sub \notin DOMAIN U
    THEN Err("subject_not_found")
    ELSE IF U[sub].deleted /\ ~inc_del
    THEN Err("subject_not_found")
    ELSE LET versions == U[sub].versions
             keep == SelectSeq(versions,
                       LAMBDA ver : inc_del \/ ~(ver.deleted \/ U[sub].deleted))
         IN Ok([i \in 1..Len(keep) |-> keep[i].version])

\* A delete that erases the subject on the soft delete as well.
delete_subject_erasing(U, sub, permanent) ==
    IF sub \notin DOMAIN U
    THEN [subjects |-> U, res |-> Err("subject_not_found")]
    ELSE IF permanent /\ ~U[sub].deleted
    THEN [subjects |-> U, res |-> Err("subject_not_deleted")]
    ELSE IF ~permanent /\ U[sub].deleted
    THEN [subjects |-> U, res |-> Err("subject_soft_deleted")]
    ELSE [subjects |-> drop(U, sub),
          res |-> Ok(version_numbers(U[sub].versions))]

delete_subject(U, sub, permanent) ==
    IF sub \notin DOMAIN U
    THEN [subjects |-> U, res |-> Err("subject_not_found")]
    ELSE IF permanent /\ ~U[sub].deleted
    THEN [subjects |-> U, res |-> Err("subject_not_deleted")]
    ELSE IF ~permanent /\ U[sub].deleted
    THEN [subjects |-> U, res |-> Err("subject_soft_deleted")]
    ELSE LET versions == U[sub].versions
             res == version_numbers(versions)
         IN [subjects |-> IF permanent
                          THEN drop(U, sub)
                          ELSE [U EXCEPT ![sub].deleted = TRUE],
             res |-> Ok(res)]

delete_subject_version(U, sub, version, permanent, inc_del) ==
    IF sub \notin DOMAIN U
    THEN [subjects |-> U, res |-> Err("subject_not_found")]
    ELSE IF U[sub].deleted /\ ~inc_del
    THEN [subjects |-> U, res |-> Err("subject_not_found")]
    ELSE LET versions == U[sub].versions
             v_it == lower_bound(versions, version)
         IN IF v_it = Len(versions) + 1 \/ versions[v_it].version # version
            THEN [subjects |-> U, res |-> Err("subject_version_not_found")]
            ELSE IF not_deleted_rejected(versions[v_it].deleted, permanent,
                                         inc_del)
            THEN [subjects |-> U, res |-> Err("subject_version_not_deleted")]
            ELSE IF soft_deleted_rejected(versions[v_it].deleted, permanent,
                                          inc_del)
            THEN [subjects |-> U, res |-> Err("subject_version_soft_deleted")]
            ELSE IF permanent
            THEN [subjects |->
                      [U EXCEPT ![sub].versions = vector_erase(versions, v_it)],
                  res |-> Ok(TRUE)]
            ELSE [subjects |->
                      [U EXCEPT ![sub].versions[v_it].deleted = TRUE],
                  res |-> Ok(~versions[v_it].deleted)]

\* A fallback that is taken even when the optional holds a value.
value_or_fallback(opt, fallback) == fallback

\* std::optional::value_or
value_or(opt, fallback) == IF opt = "nullopt" THEN fallback ELSE opt

\* A comparison that reports a change on every call.
exchange_differs_always(old, new) == TRUE

\* std::exchange(old, new) != new
exchange_differs(old, new) == old # new

\* get_compatibility(): the global level.
get_compatibility(C) == Ok(C)

\* get_compatibility(sub)
get_compatibility_sub(U, C, sub) ==
    IF sub \notin DOMAIN U
    THEN Err("subject_not_found")
    ELSE IF U[sub].deleted
    THEN Err("subject_not_found")
    ELSE Ok(value_or(U[sub].compatibility, C))

\* set_compatibility(compatibility): the global level.
set_compatibility(C, level) ==
    [compatibility |-> level, res |-> Ok(exchange_differs(C, level))]

\* A set that writes the level of a soft-deleted subject before it reports
\* subject_not_found.
set_compatibility_sub_early(U, sub, level) ==
    IF sub \notin DOMAIN U
    THEN [subjects |-> U, res |-> Err("subject_not_found")]
    ELSE IF U[sub].deleted
    THEN [subjects |-> [U EXCEPT ![sub].compatibility = level],
          res |-> Err("subject_not_found")]
    ELSE [subjects |-> [U EXCEPT ![sub].compatibility = level],
          res |-> Ok(exchange_differs(U[sub].compatibility, level))]

\* set_compatibility(sub, compatibility)
set_compatibility_sub(U, sub, level) ==
    IF sub \notin DOMAIN U
    THEN [subjects |-> U, res |-> Err("subject_not_found")]
    ELSE IF U[sub].deleted
    THEN [subjects |-> U, res |-> Err("subject_not_found")]
    ELSE [subjects |-> [U EXCEPT ![sub].compatibility = level],
          res |-> Ok(exchange_differs(U[sub].compatibility, level))]

\* A clear that rejects a soft-deleted subject as get and set do.
clear_compatibility_checked(U, sub) ==
    IF sub \notin DOMAIN U
    THEN [subjects |-> U, res |-> Err("subject_not_found")]
    ELSE IF U[sub].deleted
    THEN [subjects |-> U, res |-> Err("subject_not_found")]
    ELSE [subjects |-> [U EXCEPT ![sub].compatibility = "nullopt"],
          res |-> Ok(exchange_differs(U[sub].compatibility, "nullopt"))]

\* clear_compatibility(sub)
clear_compatibility(U, sub) ==
    IF sub \notin DOMAIN U
    THEN [subjects |-> U, res |-> Err("subject_not_found")]
    ELSE [subjects |-> [U EXCEPT ![sub].compatibility = "nullopt"],
          res |-> Ok(exchange_differs(U[sub].compatibility, "nullopt"))]

\* ------------------------------------------------------------------ actions

\* A freshly constructed store.
Init ==
    /\ schemas = <<>>
    /\ subjects = <<>>
    /\ compatibility = "none"
    /\ nodes = <<>>
    /\ topics = [t \in Topics |-> "delete"]
    /\ responses = <<>>
    /\ sources = [shard \in RouterShards |-> {}]

\* Calls that would allocate an id or a version beyond the bounds are not
\* made.
Insert(sub, def, type) ==
    LET r == insert(schemas, subjects, sub, def, type)
    IN /\ r.res.id <= MaxId
       /\ r.res.version <= MaxVersion
       /\ schemas' = r.schemas
       /\ subjects' = r.subjects
       /\ UNCHANGED <<compatibility, nodes, topics, responses, sources>>

Upsert(sub, def, type, id, version, deleted) ==
    LET r == upsert(schemas, subjects, sub, def, type, id, version, deleted)
    IN /\ schemas' = r.schemas
       /\ subjects' = r.subjects
       /\ UNCHANGED <<compatibility, nodes, topics, responses, sources>>

\* The lookups are const member functions: they return a result and leave
\* the store as it is.
GetSchema(id) ==
    /\ get_schema(schemas, id).ok \in BOOLEAN
    /\ UNCHANGED vars

GetSubjectSchema(sub, version, inc_del) ==
    /\ get_subject_schema(schemas, subjects, sub, version, inc_del).ok
           \in BOOLEAN
    /\ UNCHANGED vars

GetSubjects(inc_del) ==
    /\ get_subjects(subjects, inc_del) \subseteq Subjects
    /\ UNCHANGED vars

GetVersions(sub, inc_del) ==
    /\ get_versions(subjects, sub, inc_del).ok \in BOOLEAN
    /\ UNCHANGED vars

DeleteSubject(sub, permanent) ==
    LET r == delete_subject(subjects, sub, permanent)
    IN /\ subjects' = r.subjects
       /\ UNCHANGED <<schemas, compatibility, nodes, topics, responses, sources>>

DeleteSubjectVersion(sub, version, permanent, inc_del) ==
    LET r == delete_subject_version(subjects, sub, version, permanent, inc_del)
    IN /\ subjects' = r.subjects
       /\ UNCHANGED <<schemas, compatibility, nodes, topics, responses, sources>>

GetCompatibility ==
    /\ get_compatibility(compatibility).ok
    /\ UNCHANGED vars

GetSubjectCompatibility(sub) ==
    /\ get_compatibility_sub(subjects, compatibility, sub).ok \in BOOLEAN
    /\ UNCHANGED vars

SetCompatibility(level) ==
    LET r == set_compatibility(compatibility, level)
    IN /\ compatibility' = r.compatibility
       /\ UNCHANGED <<schemas, subjects, nodes, topics, responses,
                   sources>>

SetSubjectCompatibility(sub, level) ==
    LET r == set_compatibility_sub(subjects, sub, level)
    IN /\ subjects' = r.subjects
       /\ UNCHANGED <<schemas, compatibility, nodes, topics, responses, sources>>

ClearCompatibility(sub) ==
    LET r == clear_compatibility(subjects, sub)
    IN /\ subjects' = r.subjects
       /\ UNCHANGED <<schemas, compatibility, nodes, topics, responses, sources>>

\* The calls a client can make when it names the subjects in subs.
Calls(subs) ==
    \/ \E sub \in subs, c \in Contents :
          Insert(sub, c.definition, c.type)
    \/ \E sub \in subs, c \in Contents, id \in Ids,
          version \in Versions, deleted \in BOOLEAN :
          Upsert(sub, c.definition, c.type, id, version, deleted)
    \/ \E id \in Ids : GetSchema(id)
    \/ \E sub \in subs, version \in Versions, inc_del \in BOOLEAN :
          GetSubjectSchema(sub, version, inc_del)
    \/ \E inc_del \in BOOLEAN : GetSubjects(inc_del)
    \/ \E sub \in subs, inc_del \in BOOLEAN : GetVersions(sub, inc_del)
    \/ \E sub \in subs, permanent \in BOOLEAN :
          DeleteSubject(sub, permanent)
    \/ \E sub \in subs, version \in Versions, permanent \in BOOLEAN,
          inc_del \in BOOLEAN :
          DeleteSubjectVersion(sub, version, permanent, inc_del)

Next == Calls(Subjects)

Spec == Init /\ [][Next]_vars

\* The store used under one subject name only: the properties of a single
\* subject are checked here as well, where larger ids and versions are
\* within reach.
NextOneSubject == Calls({"s1"})

SpecOneSubject == Init /\ [][NextOneSubject]_vars

\* The compatibility calls a client can make when it names the subjects in
\* subs.
CompatibilityCalls(subs) ==
    \/ GetCompatibility
    \/ \E sub \in subs : GetSubjectCompatibility(sub)
    \/ \E level \in Levels : SetCompatibility(level)
    \/ \E sub \in subs, level \in Levels :
          SetSubjectCompatibility(sub, level)
    \/ \E sub \in subs : ClearCompatibility(sub)

\* The store of one subject with the compatibility calls as well.
NextCompatibility == Calls({"s1"}) \/ CompatibilityCalls({"s1"})

SpecCompatibility == Init /\ [][NextCompatibility]_vars

\* ------------------------------------------------- partition allocator
\* The allocation state, its nodes and the strategy are not part of the
\* sources at hand: they follow the description of the allocation domain.
\* A node keeps one counter of assigned partitions per shard and the
\* decommissioned mark; every shard holds up to MaxCapacity partitions.

broker_shard(node_id, shard) == [node_id |-> node_id, shard |-> shard]

BrokerShards == {broker_shard(n, s) : n \in NodeIds, s \in ShardIds}

\* A node as it is registered: nothing assigned, not decommissioned.
allocation_node ==
    [used |-> [s \in ShardIds |-> 0], decommissioned |-> FALSE]

register_node(N, id) ==
    IF id \in DOMAIN N THEN N ELSE put(N, id, allocation_node)

contains_node(N, id) == id \in DOMAIN N

is_empty(N, id) ==
    /\ id \in DOMAIN N
    /\ \A s \in ShardIds : N[id].used[s] = 0

\* A node that still holds assignments is not removed.
unregister_node(N, id) == IF is_empty(N, id) THEN drop(N, id) ELSE N

\* A decommission that also forgets what the node holds.
decommission_node_drained(N, id) ==
    IF id \in DOMAIN N
    THEN [N EXCEPT ![id] = [allocation_node EXCEPT !.decommissioned = TRUE]]
    ELSE N

decommission_node(N, id) ==
    IF id \in DOMAIN N THEN [N EXCEPT ![id].decommissioned = TRUE] ELSE N

recommission_node(N, id) ==
    IF id \in DOMAIN N THEN [N EXCEPT ![id].decommissioned = FALSE] ELSE N

\* The reservation of one partition on a shard of a known node.
reserve(N, bs) ==
    IF bs.node_id \in DOMAIN N
    THEN [N EXCEPT ![bs.node_id].used[bs.shard] = @ + 1]
    ELSE N

\* A release that decrements the counter of a known node whatever it holds.
release_unchecked(N, bs) ==
    IF bs.node_id \in DOMAIN N
    THEN [N EXCEPT ![bs.node_id].used[bs.shard] = @ - 1]
    ELSE N

\* The release of one partition: nothing happens for an unknown node or a
\* shard that holds nothing.
release(N, bs) ==
    IF bs.node_id \in DOMAIN N /\ N[bs.node_id].used[bs.shard] > 0
    THEN [N EXCEPT ![bs.node_id].used[bs.shard] = @ - 1]
    ELSE N

\* allocation_state::rollback of a list of replicas.
RECURSIVE rollback(_, _)
rollback(N, partial) ==
    IF partial = <<>> THEN N
    ELSE rollback(release(N, Head(partial)), Tail(partial))

\* allocation_state::rollback of a list of partition assignments.
RECURSIVE rollback_assignments(_, _)
rollback_assignments(N, partial) ==
    IF partial = <<>> THEN N
    ELSE rollback_assignments(rollback(N, Head(partial)), Tail(partial))

\* intermediate_allocation<T>: the staged placements of one scope.
intermediate_allocation == [partial |-> <<>>]

push_back(ia, t) == [ia EXCEPT !.partial = Append(@, t)]

get(ia) == ia.partial

\* A finish that hands the placements out and keeps them staged.
finish_keeping(ia) == [result |-> ia.partial, ia |-> ia]

\* finish() &&: the staged placements are exchanged for an empty vector.
finish(ia) == [result |-> ia.partial, ia |-> [ia EXCEPT !.partial = <<>>]]

\* The defaulted move constructor: the vector is moved, which leaves the
\* source empty.
move(ia) == [to |-> ia, from |-> [ia EXCEPT !.partial = <<>>]]

\* ~intermediate_allocation for T = model::broker_shard
destructor(N, ia) == rollback(N, ia.partial)

\* A destructor that rolls nothing back.
destructor_assignments_none(N, ia) == N

\* ~intermediate_allocation for T = partition_assignment
destructor_assignments(N, ia) == rollback_assignments(N, ia.partial)

\* Every shard, whatever it holds.
free_shards_all(N, n) == ShardIds

\* The shards of a node that have room for one more partition.
free_shards(N, n) == {s \in ShardIds : N[n].used[s] < MaxCapacity}

\* The nodes the strategy may pick for one more replica of a partition whose
\* replicas sit on the nodes in taken: registered, not decommissioned, not
\* holding a replica of the partition and with a shard that has room.
eligible(N, taken) ==
    {n \in DOMAIN N \ taken :
        /\ ~N[n].decommissioned
        /\ free_shards(N, n) # {}}

\* A choice that may take the node of the previous replica again.
candidates_repeating(N, taken, last, remaining) ==
    LET E == {n \in eligible(N, {}) : n >= last}
    IN IF Cardinality(E) < remaining
       THEN IF E = {} THEN {} ELSE {Min(E)}
       ELSE {n \in E : Cardinality({m \in E : m >= n}) >= remaining - 1}

\* The strategy takes the nodes in ascending order of id: when enough nodes
\* are eligible any choice that can be completed, otherwise the lowest
\* eligible node, until none is left.
candidates(N, taken, last, remaining) ==
    LET E == {n \in eligible(N, taken) : n > last}
    IN IF Cardinality(E) < remaining
       THEN IF E = {} THEN {} ELSE {Min(E)}
       ELSE {n \in E : Cardinality({m \in E : m > n}) >= remaining - 1}

\* The replicas staged one by one; a replica that cannot be placed ends the
\* scope without finish.
RECURSIVE place_replicas(_, _, _, _, _)
place_replicas(N, ia, taken, last, remaining) ==
    IF remaining = 0
    THEN LET f == finish(ia)
         IN {[nodes |-> destructor(N, f.ia), res |-> Ok(f.result)]}
    ELSE LET cands == candidates(N, taken, last, remaining)
         IN IF cands = {}
            THEN {[nodes |-> destructor(N, ia),
                   res |-> Err("insufficient_capacity")]}
            ELSE UNION
                   {UNION
                      {place_replicas(reserve(N, broker_shard(n, s)),
                                      push_back(ia, broker_shard(n, s)),
                                      taken \cup {n}, n, remaining - 1) :
                          s \in free_shards(N, n)} :
                       n \in cands}

\* The outcomes of allocate_partition: the state and the replicas, or the
\* error.
allocate_partition(N, replication_factor) ==
    place_replicas(N, intermediate_allocation, {}, 0, replication_factor)

RECURSIVE allocate_partitions(_, _, _, _)
allocate_partitions(N, ia, remaining, replication_factor) ==
    IF remaining = 0
    THEN LET f == finish(ia)
         IN {[nodes |-> destructor_assignments(N, f.ia),
              res |-> Ok(f.result)]}
    ELSE UNION
           {IF o.res.ok
            THEN allocate_partitions(o.nodes, push_back(ia, o.res.value),
                                     remaining - 1, replication_factor)
            ELSE {[nodes |-> destructor_assignments(o.nodes, ia),
                   res |-> o.res]} :
               o \in allocate_partition(N, replication_factor)}

\* allocate(allocation_request): the outcomes for a request of so many
\* partitions with this replication factor.
allocate(N, partitions, replication_factor) ==
    allocate_partitions(N, intermediate_allocation, partitions,
                        replication_factor)

\* The replicas of an assignment that sit on decommissioned nodes.
on_decommissioned(N, replicas) ==
    SelectSeq(replicas,
              LAMBDA bs : bs.node_id \in DOMAIN N
                             /\ N[bs.node_id].decommissioned)

\* Every replica stays, those on decommissioned nodes as well.
untouched_all(N, replicas) == replicas

\* The replicas of an assignment that stay where they are.
untouched(N, replicas) ==
    SelectSeq(replicas,
              LAMBDA bs : ~(bs.node_id \in DOMAIN N
                               /\ N[bs.node_id].decommissioned))

\* reallocate_partition: the replicas that stay are kept as they are and as
\* many new ones are placed as sit on decommissioned nodes.
reallocate_partition(N, replicas) ==
    LET keep == untouched(N, replicas)
        taken == {replicas[i].node_id : i \in 1..Len(replicas)}
    IN {IF o.res.ok
        THEN [nodes |-> o.nodes, res |-> Ok(keep \o o.res.value)]
        ELSE o :
           o \in place_replicas(N, intermediate_allocation, taken, 0,
                                Len(on_decommissioned(N, replicas)))}

reassign_decommissioned_replicas(N, replicas) ==
    reallocate_partition(N, replicas)

\* deallocate: best effort, pair by pair.
deallocate(N, replicas) == rollback(N, replicas)

RECURSIVE record(_, _)
record(N, replicas) ==
    IF replicas = <<>> THEN N
    ELSE record(reserve(N, Head(replicas)), Tail(replicas))

\* update_allocation_state(shards, group): a fresh assignment is recorded.
update_allocation_state(N, replicas) == record(N, replicas)

\* update_allocation_state(shards, previous): the previous assignment of the
\* group is replaced by the new one.
update_allocation_state_replace(N, replicas, previous) ==
    record(rollback(N, previous), replicas)

\* The replica lists the calls are made with: up to MaxReplication replicas
\* on different nodes, listed by node id.
Assignments ==
    {a \in UNION {[1..k -> BrokerShards] : k \in 1..MaxReplication} :
        \A i, j \in 1..Len(a) : i < j => a[i].node_id < a[j].node_id}

RegisterNode(id) ==
    /\ nodes' = register_node(nodes, id)
    /\ UNCHANGED <<schemas, subjects, compatibility, topics, responses,
                   sources>>

UnregisterNode(id) ==
    /\ nodes' = unregister_node(nodes, id)
    /\ UNCHANGED <<schemas, subjects, compatibility, topics, responses,
                   sources>>

DecommissionNode(id) ==
    /\ nodes' = decommission_node(nodes, id)
    /\ UNCHANGED <<schemas, subjects, compatibility, topics, responses,
                   sources>>

RecommissionNode(id) ==
    /\ nodes' = recommission_node(nodes, id)
    /\ UNCHANGED <<schemas, subjects, compatibility, topics, responses,
                   sources>>

IsEmpty(id) ==
    /\ is_empty(nodes, id) \in BOOLEAN
    /\ UNCHANGED vars

ContainsNode(id) ==
    /\ contains_node(nodes, id) \in BOOLEAN
    /\ UNCHANGED vars

Allocate(partitions, replication_factor) ==
    /\ \E o \in allocate(nodes, partitions, replication_factor) :
          nodes' = o.nodes
    /\ UNCHANGED <<schemas, subjects, compatibility, topics, responses,
                   sources>>

ReassignDecommissionedReplicas(replicas) ==
    /\ \E o \in reassign_decommissioned_replicas(nodes, replicas) :
          nodes' = o.nodes
    /\ UNCHANGED <<schemas, subjects, compatibility, topics, responses,
                   sources>>

Deallocate(replicas) ==
    /\ nodes' = deallocate(nodes, replicas)
    /\ UNCHANGED <<schemas, subjects, compatibility, topics, responses,
                   sources>>

\* The counters are kept finite: an assignment that would take a shard more
\* than one above its capacity is not recorded.
WithinReach(N) ==
    \A n \in DOMAIN N, s \in ShardIds : N[n].used[s] <= MaxCapacity + 1

UpdateAllocationState(replicas) ==
    /\ WithinReach(update_allocation_state(nodes, replicas))
    /\ nodes' = update_allocation_state(nodes, replicas)
    /\ UNCHANGED <<schemas, subjects, compatibility, topics, responses,
                   sources>>

UpdateAllocationStateReplace(replicas, previous) ==
    /\ WithinReach(update_allocation_state_replace(nodes, replicas, previous))
    /\ nodes' = update_allocation_state_replace(nodes, replicas, previous)
    /\ UNCHANGED <<schemas, subjects, compatibility, topics, responses,
                   sources>>

\* The calls made on the allocator by the controller.
AllocatorCalls ==
    \/ \E id \in NodeIds : RegisterNode(id)
    \/ \E id \in NodeIds : UnregisterNode(id)
    \/ \E id \in NodeIds : DecommissionNode(id)
    \/ \E id \in NodeIds : RecommissionNode(id)
    \/ \E id \in NodeIds : IsEmpty(id)
    \/ \E id \in NodeIds : ContainsNode(id)
    \/ \E partitions \in 1..MaxPartitions,
          replication_factor \in 1..MaxReplication :
          Allocate(partitions, replication_factor)
    \/ \E replicas \in Assignments :
          ReassignDecommissionedReplicas(replicas)
    \/ \E replicas \in Assignments : Deallocate(replicas)

NextAllocator == AllocatorCalls

SpecAllocator == Init /\ [][NextAllocator]_vars

\* The allocator during recovery as well, when assignments confirmed
\* elsewhere are recorded; a group that moves keeps its number of replicas.
RecoveryCalls ==
    \/ \E replicas \in Assignments : UpdateAllocationState(replicas)
    \/ \E replicas \in Assignments, previous \in Assignments :
          /\ Len(replicas) = Len(previous)
          /\ UpdateAllocationStateReplace(replicas, previous)

NextAllocatorRecovery == AllocatorCalls \/ RecoveryCalls

SpecAllocatorRecovery == Init /\ [][NextAllocatorRecovery]_vars

\* ------------------------------------------------- alter-configs requests

\* T: a resource of the request, with the one property it asks to change.
Resources(type) ==
    [resource_type : {type}, resource_name : ResourceNames,
     value : RequestValues]

\* std::vector<T> resources
Requests(type) ==
    UNION {[1..n -> Resources(type)] : n \in 0..MaxResources}

make_error_alter_config_resource_response(resource, err, msg) ==
    [error_code |-> err, error_message |-> msg,
     resource_type |-> resource.resource_type,
     resource_name |-> resource.resource_name]

\* absl::node_hash_set<ss::sstring> topic_names: constructed empty, and no
\* statement of the function inserts into it.
topic_names == {}

\* The predicate given to stable_partition.
not_contained(names, r) == r.resource_name \notin names

\* std::stable_partition with that predicate: the elements satisfying it
\* first, both groups in their original order; valid_end separates them.
stable_partition(v, names) ==
    [valid |-> SelectSeq(v, LAMBDA r : not_contained(names, r)),
     rest |-> SelectSeq(v, LAMBDA r : ~not_contained(names, r))]

\* Func f of the call: the validation the caller passes in. A resource asking for a
\* value the property can hold yields a topic_properties_update, any other
\* an error response.
f_validate(r) ==
    IF r.value \in PropertyValues
    THEN Ok([tp |-> r.resource_name, value |-> r.value])
    ELSE Err(make_error_alter_config_resource_response(
                 r, "invalid_config", "invalid property value"))

\* The loop over [begin, valid_end): the error responses pushed, and the
\* updates collected.
errors_of(v) ==
    LET bad == SelectSeq(v, LAMBDA r : ~f_validate(r).ok)
    IN [i \in 1..Len(bad) |-> f_validate(bad[i]).error]

updates_of(v) ==
    LET good == SelectSeq(v, LAMBDA r : f_validate(r).ok)
    IN [i \in 1..Len(good) |-> f_validate(good[i]).value]

\* A validate-only request that generates no response for a valid update.
generate_responses_none(updates) == <<>>

\* validate_only: one response with error_code::none for each pending update.
generate_responses(updates) ==
    [i \in 1..Len(updates) |->
        [error_code |-> "none", error_message |-> "nullopt",
         resource_type |-> "topic", resource_name |-> updates[i].tp]]

\* topics_frontend::update_topic_properties: the updates are applied in
\* order; one result for each, topic_not_exists for an unknown topic.
RECURSIVE update_topic_properties(_, _)
update_topic_properties(T, updates) ==
    IF updates = <<>>
    THEN [topics |-> T, results |-> <<>>]
    ELSE LET u == Head(updates)
             known == u.tp \in DOMAIN T
             rest == update_topic_properties(
                         IF known THEN [T EXCEPT ![u.tp] = u.value] ELSE T,
                         Tail(updates))
         IN [topics |-> rest.topics,
             results |->
                 <<[tp |-> u.tp,
                    ec |-> IF known THEN "success" ELSE "topic_not_exists"]>>
                 \o rest.results]

map_topic_error_code(ec) ==
    CASE ec = "success" -> "none"
      [] ec = "topic_not_exists" -> "unknown_topic_or_partition"
      [] OTHER -> "unknown_server_error"

\* The responses made of the results of update_topic_properties.
update_responses(results) ==
    [i \in 1..Len(results) |->
        [error_code |-> map_topic_error_code(results[i].ec),
         error_message |-> "nullopt",
         resource_type |-> "topic", resource_name |-> results[i].tp]]

\* The result holds, besides the responses and the topic table, what the
\* call passed on: the resources given to f, whether
\* update_topic_properties was invoked, and the updates given to it.
do_alter_topics_configuration(T, resources, validate_only) ==
    LET p == stable_partition(resources, topic_names)
        duplicated ==
            [i \in 1..Len(p.rest) |->
                make_error_alter_config_resource_response(
                    p.rest[i], "invalid_config",
                    "duplicated topic {} alter config request")]
        errors == errors_of(p.valid)
        updates == updates_of(p.valid)
    IN IF validate_only
       THEN [topics |-> T,
             responses |-> duplicated \o errors \o generate_responses(updates),
             validated |-> p.valid, invoked |-> FALSE, updates |-> <<>>]
       ELSE LET u == update_topic_properties(T, updates)
            IN [topics |-> u.topics,
                responses |->
                    duplicated \o errors \o update_responses(u.results),
                validated |-> p.valid, invoked |-> TRUE, updates |-> updates]

\* No broker property can be altered: one error response for each resource.
do_alter_broker_configuartion(resources) ==
    [i \in 1..Len(resources) |->
        make_error_alter_config_resource_response(
            resources[i], "invalid_config",
            <<"changing broker property isn't currently supported",
              resources[i].resource_name>>)]

DoAlterTopicsConfiguration(resources, validate_only) ==
    LET r == do_alter_topics_configuration(topics, resources, validate_only)
    IN /\ topics' = r.topics
       /\ responses' = r.responses
       /\ UNCHANGED <<schemas, subjects, compatibility, nodes, sources>>

DoAlterBrokerConfiguration(resources) ==
    /\ responses' = do_alter_broker_configuartion(resources)
    /\ UNCHANGED <<schemas, subjects, compatibility, nodes, topics, sources>>

NextAlterConfigs ==
    \/ \E resources \in Requests("topic"), validate_only \in BOOLEAN :
          DoAlterTopicsConfiguration(resources, validate_only)
    \/ \E resources \in Requests("broker") :
          DoAlterBrokerConfiguration(resources)

SpecAlterConfigs == Init /\ [][NextAlterConfigs]_vars

\* ------------------------------------------------------- coproc::service

\* The topics a request to enable a script can name.
TopicKinds == {"valid", "materialized", "invalid"}

\* enable_copros_request::data::topic_mode, with the shards that hold
\* partitions of the topic.
TopicModes == [topic : TopicKinds, hosting : SUBSET RouterShards]

\* The topics of one request: none or one.
TopicRequests == {<<>>} \cup {<<tm>> : tm \in TopicModes}

\* The orders in which the shards' results can reach the reducer.
Orders ==
    {o \in [1..Cardinality(RouterShards) -> RouterShards] :
        \A i, j \in DOMAIN o : o[i] = o[j] => i = j}

\* router::script_id_exists on one shard.
script_id_exists(Src, shard, id) == id \in Src[shard]

\* router::add_source on one shard: the errc it returns and the ids the
\* shard runs afterwards.
add_source(Src, shard, id, hosting) ==
    IF shard \notin hosting
    THEN [ids |-> Src[shard], code |-> "topic_does_not_exist"]
    ELSE IF id \in Src[shard]
    THEN [ids |-> Src[shard], code |-> "script_id_already_exists"]
    ELSE [ids |-> Src[shard] \cup {id}, code |-> "success"]

\* router::remove_source on one shard.
remove_source(Src, shard, id) ==
    [ids |-> Src[shard] \ {id}, removed |-> id \in Src[shard]]

assemble_response(codes) ==
    IF \A i \in DOMAIN codes : codes[i] = "topic_does_not_exist"
    THEN "topic_does_not_exist"
    ELSE IF ~\E i \in DOMAIN codes : codes[i] = "success"
    THEN "internal_error"
    ELSE "success"

map_code(error_code) ==
    CASE error_code = "success" -> "success"
      [] error_code = "script_id_already_exists" -> "script_id_already_exists"
      [] error_code = "topic_does_not_exist" -> "topic_does_not_exist"
      [] OTHER -> "internal_error"

\* service::insert: add_source on every shard, the codes collected in shard
\* order; a shard in throwing raises an exception instead and keeps its
\* sources.
insert_source(Src, id, hosting, throwing) ==
    [sources |->
        [shard \in RouterShards |->
            IF shard \in throwing THEN Src[shard]
            ELSE add_source(Src, shard, id, hosting).ids],
     res |->
        assemble_response(
            [shard \in RouterShards |->
                IF shard \in throwing THEN "internal_error"
                ELSE map_code(add_source(Src, shard, id, hosting).code)])]

enable_validator(topic, hosting) ==
    IF topic = "materialized" THEN "materialized_topic"
    ELSE IF topic = "invalid" THEN "invalid_topic"
    ELSE "success"

\* service::copro_exists: logical_or over the shards.
copro_exists(Src, id) ==
    \E shard \in RouterShards : script_id_exists(Src, shard, id)

\* service::evaluate_topics for a request that names at most one topic.
evaluate_topics(Src, id, request, throwing) ==
    IF request = <<>>
    THEN [sources |-> Src, res |-> <<"invalid_topic">>]
    ELSE IF copro_exists(Src, id)
    THEN [sources |-> Src,
          res |-> [i \in DOMAIN request |-> "script_id_already_exists"]]
    ELSE LET tm == request[1]
             v == enable_validator(tm.topic, tm.hosting)
         IN IF v # "success"
            THEN [sources |-> Src, res |-> <<v>>]
            ELSE LET r == insert_source(Src, id, tm.hosting, throwing)
                 IN [sources |-> r.sources, res |-> <<r.res>>]

\* A reducer that looks for internal_error in the accumulator only.
reducer_of_acc(acc, v) ==
    IF acc = "internal_error" THEN "internal_error"
    ELSE IF acc = "success" \/ v = "success" THEN "success"
    ELSE acc

\* The reducer service::remove gives to map_reduce0.
reducer(acc, v) ==
    IF acc = "internal_error" \/ v = "internal_error" THEN "internal_error"
    ELSE IF acc = "success" \/ v = "success" THEN "success"
    ELSE acc

\* The mapper of service::remove on one shard.
remove_mapper(Src, shard, id, throwing) ==
    IF shard \in throwing THEN "internal_error"
    ELSE IF remove_source(Src, shard, id).removed THEN "success"
    ELSE "script_id_does_not_exist"

\* map_reduce0: the mapped values are reduced, from the initial value, in
\* the order in which the shards complete.
RECURSIVE map_reduce0(_, _, _)
map_reduce0(mapped, acc, order) ==
    IF order = <<>> THEN acc
    ELSE map_reduce0(mapped, reducer(acc, mapped[Head(order)]), Tail(order))

\* service::remove
remove(Src, id, throwing, order) ==
    [sources |->
        [shard \in RouterShards |->
            IF shard \in throwing THEN Src[shard]
            ELSE remove_source(Src, shard, id).ids],
     res |->
        map_reduce0(
            [shard \in RouterShards |->
                remove_mapper(Src, shard, id, throwing)],
            "script_id_does_not_exist", order)]

EvaluateTopics(id, request, throwing) ==
    /\ sources' = evaluate_topics(sources, id, request, throwing).sources
    /\ UNCHANGED <<schemas, subjects, compatibility, nodes, topics,
                   responses>>

Remove(id, throwing, order) ==
    /\ sources' = remove(sources, id, throwing, order).sources
    /\ UNCHANGED <<schemas, subjects, compatibility, nodes, topics,
                   responses>>

NextCoproc ==
    \/ \E id \in ScriptIds, request \in TopicRequests,
          throwing \in SUBSET RouterShards :
          EvaluateTopics(id, request, throwing)
    \/ \E id \in ScriptIds, throwing \in SUBSET RouterShards,
          order \in Orders :
          Remove(id, throwing, order)

SpecCoproc == Init /\ [][NextCoproc]_vars

\* ------------------------------------------------------------------ claims
\* Each property below is stated over every reachable store and every call
\* that can be made on it: the call is applied to the current store and its
\* result and resulting store are compared with what the property says.

\* The version entries of a subject, as a set.
EntriesOf(U, sub) == {U[sub].versions[i] : i \in 1..Len(U[sub].versions)}

\* The entries of sub with version number v, and those referencing id.
EntriesAt(U, sub, v) == {e \in EntriesOf(U, sub) : e.version = v}
EntriesWithId(U, sub, id) == {e \in EntriesOf(U, sub) : e.id = id}

\* The version numbers of a subject in list order.
VersionSeq(U, sub) ==
    [i \in 1..Len(U[sub].versions) |-> U[sub].versions[i].version]

StrictlyAscending(s) == \A i, j \in 1..Len(s) : i < j => s[i] < s[j]

C2_SoftDeletedVersionNotFound ==
    \A sub \in DOMAIN subjects, v \in Versions :
        (/\ ~subjects[sub].deleted
         /\ \E e \in EntriesAt(subjects, sub, v) : e.deleted)
        => /\ get_subject_schema(schemas, subjects, sub, v, FALSE)
                 = Err("subject_version_not_found")
           /\ LET g == get_subject_schema(schemas, subjects, sub, v, TRUE)
              IN g.ok /\ g.value.deleted

\* C3 as stated: a permanent delete_subject_version of a version that exists
\* and is not soft-deleted is rejected with subject_version_not_deleted and
\* removes nothing, for every value of include_deleted.
C3_PermanentDeleteOfActiveRejected ==
    \A sub \in DOMAIN subjects, v \in Versions, inc_del \in BOOLEAN :
        (\E e \in EntriesAt(subjects, sub, v) : ~e.deleted)
        => LET r == delete_subject_version(subjects, sub, v, TRUE, inc_del)
           IN /\ r.res = Err("subject_version_not_deleted")
              /\ r.subjects = subjects

\* C3 as the code has it: with include_deleted=no the call is rejected and
\* removes nothing (subject_version_not_deleted, or subject_not_found when
\* the subject itself is soft-deleted); with include_deleted=yes the check is
\* skipped, the active version is erased and the call returns true.
C3_PermanentDeleteOfActiveByIncludeDeleted ==
    \A sub \in DOMAIN subjects, v \in Versions, inc_del \in BOOLEAN :
        (\E e \in EntriesAt(subjects, sub, v) : ~e.deleted)
        => LET r == delete_subject_version(subjects, sub, v, TRUE, inc_del)
           IN IF ~inc_del
              THEN /\ r.subjects = subjects
                   /\ r.res = Err(IF subjects[sub].deleted
                                  THEN "subject_not_found"
                                  ELSE "subject_version_not_deleted")
              ELSE /\ r.res = Ok(TRUE)
                   /\ r.subjects =
                         [subjects EXCEPT ![sub].versions =
                             SelectSeq(@, LAMBDA x : x.version # v)]

\* A store with an active version of a subject that is not deleted: the
\* permanent delete is rejected with include_deleted=no and erases the
\* version with include_deleted=yes.
C3_Witness ==
    \E sub \in DOMAIN subjects, v \in Versions :
        /\ ~subjects[sub].deleted
        /\ \E e \in EntriesAt(subjects, sub, v) : ~e.deleted
        /\ delete_subject_version(subjects, sub, v, TRUE, FALSE).res
              = Err("subject_version_not_deleted")
        /\ LET r == delete_subject_version(subjects, sub, v, TRUE, TRUE)
           IN r.res = Ok(TRUE) /\ EntriesAt(r.subjects, sub, v) = {}

\* C4 as stated: a soft delete_subject_version of a version that is already
\* soft-deleted fails with subject_version_soft_deleted for every value of
\* include_deleted, and leaves the store unchanged.
C4_SoftDeleteOfSoftDeletedFails ==
    \A sub \in DOMAIN subjects, v \in Versions, inc_del \in BOOLEAN :
        (\E e \in EntriesAt(subjects, sub, v) : e.deleted)
        => LET r == delete_subject_version(subjects, sub, v, FALSE, inc_del)
           IN /\ r.res = Err("subject_version_soft_deleted")
              /\ r.subjects = subjects

\* C4 as the code has it: the store is left unchanged in every case; the call
\* fails only with include_deleted=no (subject_version_soft_deleted, or
\* subject_not_found when the subject itself is soft-deleted); with
\* include_deleted=yes it succeeds and returns false.
C4_SoftDeleteOfSoftDeletedByIncludeDeleted ==
    \A sub \in DOMAIN subjects, v \in Versions, inc_del \in BOOLEAN :
        (\E e \in EntriesAt(subjects, sub, v) : e.deleted)
        => LET r == delete_subject_version(subjects, sub, v, FALSE, inc_del)
           IN /\ r.subjects = subjects
              /\ r.res = IF inc_del
                         THEN Ok(FALSE)
                         ELSE Err(IF subjects[sub].deleted
                                  THEN "subject_not_found"
                                  ELSE "subject_version_soft_deleted")

\* A store with a soft-deleted version of a subject that is not deleted: the
\* soft delete fails with include_deleted=no and returns false with
\* include_deleted=yes.
C4_Witness ==
    \E sub \in DOMAIN subjects, v \in Versions :
        /\ ~subjects[sub].deleted
        /\ \E e \in EntriesAt(subjects, sub, v) : e.deleted
        /\ delete_subject_version(subjects, sub, v, FALSE, FALSE).res
              = Err("subject_version_soft_deleted")
        /\ delete_subject_version(subjects, sub, v, FALSE, TRUE).res
              = Ok(FALSE)

\* C5: insert followed immediately by get_subject_schema of the returned
\* version with include_deleted=no succeeds and returns the id insert
\* returned, the type and definition inserted, and deleted=no.
C5_InsertThenGetRoundTrip ==
    \A sub \in Subjects, c \in Contents :
        LET r == insert(schemas, subjects, sub, c.definition, c.type)
            g == get_subject_schema(r.schemas, r.subjects, sub,
                                    r.res.version, FALSE)
        IN /\ g.ok
           /\ g.value = [sub |-> sub, version |-> r.res.version,
                         id |-> r.res.id, type |-> c.type,
                         definition |-> c.definition, deleted |-> FALSE]

\* A store in which the subject is soft-deleted and its version holding the
\* schema is soft-deleted too, so that the lookup succeeds only because the
\* insert undeleted both.
C5_Witness ==
    \E sub \in DOMAIN subjects, c \in Contents :
        LET r == insert(schemas, subjects, sub, c.definition, c.type)
        IN /\ subjects[sub].deleted
           /\ \E e \in EntriesWithId(subjects, sub, r.res.id) :
                 e.deleted /\ e.version = r.res.version
           /\ ~get_subject_schema(schemas, subjects, sub, r.res.version,
                                  FALSE).ok
           /\ get_subject_schema(r.schemas, r.subjects, sub, r.res.version,
                                 FALSE).ok

\* C6: inserting the same (type, definition) under two different subjects
\* that were both absent returns the same schema id in both calls, version 1
\* and inserted=true in each; on an empty store the first insert returns id 1.
C6_DedupAcrossSubjects ==
    \A sub1 \in Subjects, sub2 \in Subjects, c \in Contents :
        (sub1 # sub2 /\ sub1 \notin DOMAIN subjects
                     /\ sub2 \notin DOMAIN subjects)
        => LET r1 == insert(schemas, subjects, sub1, c.definition, c.type)
               r2 == insert(r1.schemas, r1.subjects, sub2, c.definition,
                            c.type)
           IN /\ r1.res.id = r2.res.id
              /\ r1.res.version = 1 /\ r1.res.inserted = TRUE
              /\ r2.res.version = 1 /\ r2.res.inserted = TRUE
              /\ r1.res.id \in DOMAIN r2.schemas
              /\ r2.schemas[r1.res.id] = c
              /\ (DOMAIN schemas = {} => r1.res.id = 1)

\* A store that holds schemas but neither subject (both were permanently
\* deleted), where the two inserts share an id other than 1 that the first
\* of them allocates.
C6_Witness ==
    /\ DOMAIN subjects = {}
    /\ DOMAIN schemas # {}
    /\ \E sub1 \in Subjects, sub2 \in Subjects, c \in Contents :
          LET r1 == insert(schemas, subjects, sub1, c.definition, c.type)
              r2 == insert(r1.schemas, r1.subjects, sub2, c.definition,
                           c.type)
          IN /\ sub1 # sub2
             /\ r1.res.id \notin DOMAIN schemas
             /\ r1.res.id = r2.res.id /\ r1.res.id # 1
             /\ r2.res.version = 1 /\ r2.res.inserted

\* C7: get_versions with include_deleted=no, when it succeeds, returns a
\* strictly ascending list holding no soft-deleted version, and it fails
\* with subject_not_found when the subject itself is soft-deleted.
C7_GetVersionsAscendingWithoutDeleted ==
    \A sub \in Subjects :
        LET g == get_versions(subjects, sub, FALSE)
        IN /\ g.ok =>
                 /\ StrictlyAscending(g.value)
                 /\ \A i \in 1..Len(g.value) :
                       \A e \in EntriesAt(subjects, sub, g.value[i]) :
                          ~e.deleted
           /\ (sub \in DOMAIN subjects /\ subjects[sub].deleted)
                 => g = Err("subject_not_found")

\* A store where a subject holds a soft-deleted version 1 and an active
\* version 2, and only version 2 is listed.
C7_Witness ==
    \E sub \in DOMAIN subjects :
        LET g == get_versions(subjects, sub, FALSE)
        IN /\ \E e \in EntriesAt(subjects, sub, 1) : e.deleted
           /\ \E e \in EntriesAt(subjects, sub, 2) : ~e.deleted
           /\ g = Ok(<<2>>)

\* C8: in every reachable store each subject's full version list, the
\* soft-deleted entries included, has unique version numbers in strictly
\* ascending order.
C8_VersionsSortedUnique ==
    \A sub \in DOMAIN subjects : StrictlyAscending(VersionSeq(subjects, sub))

\* A store where a subject holds version 2 alone, so that an upsert of
\* version 1 has to be placed before it, and does.
C8_Witness ==
    \E sub \in DOMAIN subjects :
        /\ VersionSeq(subjects, sub) = <<2>>
        /\ \E c \in Contents, id \in Ids, deleted \in BOOLEAN :
              LET r == upsert(schemas, subjects, sub, c.definition, c.type,
                              id, 1, deleted)
              IN r.res = TRUE /\ VersionSeq(r.subjects, sub) = <<1, 2>>

\* What every lookup of an absent subject returns, include_deleted set or not.
AbsentToLookups(S, U, sub) ==
    \A inc_del \in BOOLEAN :
        /\ get_versions(U, sub, inc_del) = Err("subject_not_found")
        /\ \A v \in Versions :
              get_subject_schema(S, U, sub, v, inc_del)
                  = Err("subject_not_found")
        /\ sub \notin get_subjects(U, inc_del)

\* C9: a permanent delete_subject succeeds only on a soft-deleted subject; on
\* a subject that exists and is not soft-deleted it fails with
\* subject_not_deleted and changes nothing; when it succeeds the subject is
\* erased, and an erased (absent) subject is found by no lookup, also with
\* include_deleted=yes, while an insert or upsert creates it again.
C9_PermanentDeleteSubject ==
    \A sub \in Subjects :
        LET r == delete_subject(subjects, sub, TRUE)
        IN /\ r.res.ok => (sub \in DOMAIN subjects /\ subjects[sub].deleted)
           /\ (sub \in DOMAIN subjects /\ ~subjects[sub].deleted)
                 => (r.res = Err("subject_not_deleted")
                        /\ r.subjects = subjects)
           /\ r.res.ok =>
                 /\ sub \notin DOMAIN r.subjects
                 /\ AbsentToLookups(schemas, r.subjects, sub)
           /\ sub \notin DOMAIN subjects =>
                 /\ AbsentToLookups(schemas, subjects, sub)
                 /\ \A c \in Contents :
                       sub \in DOMAIN insert(schemas, subjects, sub,
                                             c.definition, c.type).subjects

\* A store with a soft-deleted subject that holds versions and is visible
\* with include_deleted=yes, which the permanent delete erases.
C9_Witness ==
    \E sub \in DOMAIN subjects :
        /\ subjects[sub].deleted
        /\ subjects[sub].versions # <<>>
        /\ get_versions(subjects, sub, TRUE).ok
        /\ LET r == delete_subject(subjects, sub, TRUE)
           IN r.res.ok /\ sub \notin DOMAIN r.subjects

\* C10: a soft delete_subject of a subject that is not deleted sets only the
\* subject's deleted flag: it returns exactly the version numbers the subject
\* holds, and the subject's version entries, as seen with
\* include_deleted=yes, and every other subject are unchanged.
C10_SoftDeleteSubjectFrame ==
    \A sub \in DOMAIN subjects :
        ~subjects[sub].deleted
        => LET r == delete_subject(subjects, sub, FALSE)
           IN /\ r.res = Ok(VersionSeq(subjects, sub))
              /\ r.subjects = [subjects EXCEPT ![sub].deleted = TRUE]
              /\ get_versions(r.subjects, sub, TRUE)
                    = get_versions(subjects, sub, TRUE)
              /\ \A v \in Versions :
                    get_subject_schema(schemas, r.subjects, sub, v, TRUE)
                        = get_subject_schema(schemas, subjects, sub, v, TRUE)

\* A store where the subject soft-deleted holds an active and a soft-deleted
\* version and another subject exists beside it.
C10_Witness ==
    \E sub \in DOMAIN subjects :
        /\ ~subjects[sub].deleted
        /\ DOMAIN subjects # {sub}
        /\ \E e, f \in EntriesOf(subjects, sub) : e.deleted /\ ~f.deleted
        /\ LET r == delete_subject(subjects, sub, FALSE)
           IN r.res = Ok(<<1, 2>>) /\ r.subjects[sub].deleted

\* C11: for a soft-deleted subject, get_subject_schema and get_versions with
\* include_deleted=no return subject_not_found and get_subjects leaves it
\* out; with include_deleted=yes get_versions and get_subject_schema (of a
\* version the subject holds) succeed and get_subjects lists it.
C11_SoftDeletedSubjectLookups ==
    \A sub \in DOMAIN subjects :
        subjects[sub].deleted =>
            /\ get_versions(subjects, sub, FALSE) = Err("subject_not_found")
            /\ \A v \in Versions :
                  get_subject_schema(schemas, subjects, sub, v, FALSE)
                      = Err("subject_not_found")
            /\ sub \notin get_subjects(subjects, FALSE)
            /\ get_versions(subjects, sub, TRUE)
                  = Ok(VersionSeq(subjects, sub))
            /\ \A e \in EntriesOf(subjects, sub) :
                  LET g == get_subject_schema(schemas, subjects, sub,
                                              e.version, TRUE)
                  IN g.ok /\ g.value.version = e.version /\ g.value.id = e.id
            /\ sub \in get_subjects(subjects, TRUE)

\* A store with a soft-deleted subject that holds a version.
C11_Witness ==
    \E sub \in DOMAIN subjects :
        /\ subjects[sub].deleted
        /\ get_subject_schema(schemas, subjects, sub, 1, FALSE)
              = Err("subject_not_found")
        /\ get_subject_schema(schemas, subjects, sub, 1, TRUE).ok
        /\ get_subjects(subjects, FALSE) # get_subjects(subjects, TRUE)

\* Version v of sub is active and seen by the lookups made with
\* include_deleted=no.
ActiveAndVisible(S, U, sub, v) ==
    /\ sub \in DOMAIN U
    /\ EntriesAt(U, sub, v) # {}
    /\ \A e \in EntriesAt(U, sub, v) : ~e.deleted
    /\ LET g == get_subject_schema(S, U, sub, v, FALSE)
       IN g.ok /\ ~g.value.deleted
    /\ LET l == get_versions(U, sub, FALSE)
       IN l.ok /\ \E i \in 1..Len(l.value) : l.value[i] = v

\* C12 as stated: from the soft-deleted state of a version, an insert that
\* resolves to that version, and any upsert of that version, leave it active
\* and visible with include_deleted=no.
C12_WriteUndeletesVersion ==
    \A sub \in DOMAIN subjects :
        \A e \in EntriesOf(subjects, sub) :
            e.deleted =>
                /\ \A c \in Contents :
                      LET r == insert(schemas, subjects, sub, c.definition,
                                      c.type)
                      IN r.res.version = e.version
                            => ActiveAndVisible(r.schemas, r.subjects, sub,
                                                e.version)
                /\ \A c \in Contents, id \in Ids, deleted \in BOOLEAN :
                      LET r == upsert(schemas, subjects, sub, c.definition,
                                      c.type, id, e.version, deleted)
                      IN ActiveAndVisible(r.schemas, r.subjects, sub,
                                          e.version)

\* C12 as the code has it: the insert undeletes the version; an upsert
\* writes the deleted flag it is given, so the version is active and visible
\* afterwards exactly when the upsert is made with deleted=no, and stays
\* soft-deleted when it is made with deleted=yes.
C12_WriteSetsVersionDeleted ==
    \A sub \in DOMAIN subjects :
        \A e \in EntriesOf(subjects, sub) :
            e.deleted =>
                /\ \A c \in Contents :
                      LET r == insert(schemas, subjects, sub, c.definition,
                                      c.type)
                      IN r.res.version = e.version
                            => ActiveAndVisible(r.schemas, r.subjects, sub,
                                                e.version)
                /\ \A c \in Contents, id \in Ids, deleted \in BOOLEAN :
                      LET r == upsert(schemas, subjects, sub, c.definition,
                                      c.type, id, e.version, deleted)
                      IN /\ \A f \in EntriesAt(r.subjects, sub, e.version) :
                               f.deleted = deleted
                         /\ ActiveAndVisible(r.schemas, r.subjects, sub,
                                             e.version) <=> ~deleted

\* A store with a soft-deleted version that an insert resolves to and
\* undeletes, that an upsert with deleted=no undeletes, and that an upsert
\* with deleted=yes leaves soft-deleted.
C12_Witness ==
    \E sub \in DOMAIN subjects :
        \E e \in EntriesOf(subjects, sub) :
            /\ e.deleted
            /\ \E c \in Contents :
                  LET r == insert(schemas, subjects, sub, c.definition, c.type)
                  IN /\ r.res.version = e.version
                     /\ ActiveAndVisible(r.schemas, r.subjects, sub, e.version)
            /\ \E c \in Contents, id \in Ids :
                  /\ ActiveAndVisible(
                        upsert(schemas, subjects, sub, c.definition, c.type,
                               id, e.version, FALSE).schemas,
                        upsert(schemas, subjects, sub, c.definition, c.type,
                               id, e.version, FALSE).subjects,
                        sub, e.version)
                  /\ \A f \in EntriesAt(
                        upsert(schemas, subjects, sub, c.definition, c.type,
                               id, e.version, TRUE).subjects,
                        sub, e.version) : f.deleted

\* The version list of sub, empty when the store has no such subject.
VersionsOf(U, sub) == IF sub \in DOMAIN U THEN U[sub].versions ELSE <<>>

\* The ids under which the store holds exactly this content.
IdsHolding(S, c) == {i \in DOMAIN S : S[i] = [type |-> c.type,
                                              definition |-> c.definition]}

\* C13: insert never creates a duplicate schema. When the content is already
\* stored, the returned id holds that content and the set of schema ids is
\* unchanged; otherwise the id is 1 for an empty store and the largest id
\* plus one for any other, above every id present, whoever wrote it.
C13_InsertDeduplicatesOrAllocatesAboveMax ==
    \A sub \in Subjects, c \in Contents :
        LET r == insert(schemas, subjects, sub, c.definition, c.type)
            id == r.res.id
        IN IF IdsHolding(schemas, c) # {}
           THEN /\ id \in IdsHolding(schemas, c)
                /\ DOMAIN r.schemas = DOMAIN schemas
                /\ r.schemas[id] = schemas[id]
           ELSE /\ IF DOMAIN schemas = {} THEN id = 1
                   ELSE id - 1 \in DOMAIN schemas
                /\ \A i \in DOMAIN schemas : i < id
                /\ DOMAIN r.schemas = DOMAIN schemas \cup {id}
                /\ IdsHolding(r.schemas, c) = {id}

\* A store whose only schema was written by upsert at id 2: inserting its
\* content reuses id 2, inserting another content allocates id 3.
C13_Witness ==
    /\ DOMAIN schemas = {2}
    /\ \E c \in Contents :
          /\ IdsHolding(schemas, c) = {2}
          /\ insert(schemas, subjects, "s1", c.definition, c.type).res.id = 2
    /\ \E c \in Contents :
          /\ IdsHolding(schemas, c) = {}
          /\ insert(schemas, subjects, "s1", c.definition, c.type).res.id = 3

\* C14: when no version of the subject references the resolved schema id,
\* insert appends an active version numbered one above the subject's largest
\* version, or 1 for a subject without versions, and reports inserted=true;
\* the versions the subject had keep their number, id and deleted flag.
C14_InsertAppendsNextVersion ==
    \A sub \in Subjects, c \in Contents :
        LET r == insert(schemas, subjects, sub, c.definition, c.type)
            before == VersionsOf(subjects, sub)
            after == VersionsOf(r.subjects, sub)
        IN (\A i \in 1..Len(before) : before[i].id # r.res.id) =>
              /\ r.res.inserted
              /\ IF before = <<>> THEN r.res.version = 1
                 ELSE /\ \E i \in 1..Len(before) :
                            before[i].version = r.res.version - 1
                      /\ \A i \in 1..Len(before) :
                            before[i].version < r.res.version
              /\ after = Append(before,
                                [version |-> r.res.version, id |-> r.res.id,
                                 deleted |-> FALSE])

\* A subject whose only version is number 2, soft-deleted: an insert of a
\* schema it does not reference appends version 3.
C14_Witness ==
    /\ "s1" \in DOMAIN subjects
    /\ Len(subjects["s1"].versions) = 1
    /\ subjects["s1"].versions[1].version = 2
    /\ subjects["s1"].versions[1].deleted
    /\ \E c \in Contents :
          LET r == insert(schemas, subjects, "s1", c.definition, c.type)
          IN /\ r.res.id # subjects["s1"].versions[1].id
             /\ r.res.inserted
             /\ r.res.version = 3
             /\ Len(r.subjects["s1"].versions) = 2

\* C15: upsert returns true iff the subject had no entry with that version.
\* Afterwards get_schema(id) returns the written content whatever the id held
\* and whatever other id holds the same content, get_subject_schema of the
\* version with include_deleted=yes returns exactly what was written, and the
\* other versions of the subject are as they were.
C15_UpsertForceWrites ==
    \A sub \in Subjects, c \in Contents, id \in Ids, version \in Versions,
       deleted \in BOOLEAN :
        LET r == upsert(schemas, subjects, sub, c.definition, c.type, id,
                        version, deleted)
            before == VersionsOf(subjects, sub)
            after == VersionsOf(r.subjects, sub)
        IN /\ r.res = (\A i \in 1..Len(before) : before[i].version # version)
           /\ get_schema(r.schemas, id)
                 = Ok([id |-> id, type |-> c.type,
                       definition |-> c.definition])
           /\ get_subject_schema(r.schemas, r.subjects, sub, version, TRUE)
                 = Ok([sub |-> sub, version |-> version, id |-> id,
                       type |-> c.type, definition |-> c.definition,
                       deleted |-> deleted])
           /\ SelectSeq(after, LAMBDA e : e.version # version)
                 = SelectSeq(before, LAMBDA e : e.version # version)
           /\ Cardinality({i \in 1..Len(after) : after[i].version = version})
                 = 1

\* A store where id 1 holds one content and id 2 another, and s1 has versions
\* 1 and 2: an upsert of version 1 at id 1 with the content of id 2 returns
\* false and get_schema(1) returns the new content.
C15_Witness ==
    /\ DOMAIN schemas = {1, 2}
    /\ schemas[1] # schemas[2]
    /\ "s1" \in DOMAIN subjects
    /\ Len(subjects["s1"].versions) = 2
    /\ LET r == upsert(schemas, subjects, "s1", schemas[2].definition,
                       schemas[2].type, 1, 1, TRUE)
       IN /\ ~r.res
          /\ get_schema(r.schemas, 1).value.definition = schemas[2].definition
          /\ get_schema(r.schemas, 1).value.type = schemas[2].type
          /\ r.subjects["s1"].versions[2] = subjects["s1"].versions[2]

\* C16: a successful delete_subject_version returns true iff the call changed
\* the store. A permanent delete removes the entry and returns true; a soft
\* delete returns true iff the version's deleted flag went from no to yes.
C16_DeleteVersionReportsChange ==
    \A sub \in Subjects, version \in Versions, permanent \in BOOLEAN,
       inc_del \in BOOLEAN :
        LET r == delete_subject_version(subjects, sub, version, permanent,
                                        inc_del)
            before == VersionsOf(subjects, sub)
            after == VersionsOf(r.subjects, sub)
        IN r.res.ok =>
              /\ r.res.value = (r.subjects # subjects)
              /\ permanent =>
                    /\ r.res.value
                    /\ \A i \in 1..Len(after) : after[i].version # version
                    /\ after = SelectSeq(before,
                                         LAMBDA e : e.version # version)
              /\ ~permanent =>
                    /\ r.res.value
                          = (\E i \in 1..Len(before) :
                                /\ before[i].version = version
                                /\ ~before[i].deleted)
                    /\ \A i \in 1..Len(after) :
                          after[i].version = version => after[i].deleted
                    /\ Len(after) = Len(before)

\* A subject with a soft-deleted version: its permanent delete returns true
\* and removes it, its soft delete with include_deleted=yes returns false and
\* changes nothing; and an active version whose soft delete returns true.
C16_Witness ==
    /\ "s1" \in DOMAIN subjects
    /\ \E v \in Versions :
          /\ delete_subject_version(subjects, "s1", v, TRUE, FALSE).res
                = Ok(TRUE)
          /\ delete_subject_version(subjects, "s1", v, FALSE, TRUE).res
                = Ok(FALSE)
    /\ \E v \in Versions :
          delete_subject_version(subjects, "s1", v, FALSE, FALSE).res
              = Ok(TRUE)

\* C17: for an existing subject that is not deleted, get_compatibility(sub)
\* returns the subject's override when one is set and the global level
\* otherwise. Without an override (none was ever set, or it was cleared) a
\* set_compatibility of the global level shows in get_compatibility(sub) at
\* once; with an override the result stays what it was.
C17_SubjectCompatibilityFallsBackToGlobal ==
    /\ \A sub \in DOMAIN subjects :
          ~subjects[sub].deleted =>
             LET override == subjects[sub].compatibility
                 cleared == clear_compatibility(subjects, sub).subjects
             IN /\ get_compatibility_sub(subjects, compatibility, sub)
                      = Ok(IF override = "nullopt" THEN compatibility
                           ELSE override)
                /\ \A level \in Levels :
                      LET g == set_compatibility(compatibility, level)
                      IN /\ get_compatibility(g.compatibility) = Ok(level)
                         /\ get_compatibility_sub(subjects, g.compatibility,
                                                  sub)
                               = Ok(IF override = "nullopt" THEN level
                                    ELSE override)
                         /\ get_compatibility_sub(cleared, g.compatibility,
                                                  sub) = Ok(level)
    /\ \A sub \in Subjects \ DOMAIN subjects, c \in Contents,
          level \in Levels :
          get_compatibility_sub(
              insert(schemas, subjects, sub, c.definition, c.type).subjects,
              set_compatibility(compatibility, level).compatibility, sub)
              = Ok(level)

\* An active subject whose override differs from the global level: the
\* lookup returns the override, also after the global level is set to
\* another value, and the global level once the override is cleared.
C17_Witness ==
    /\ "s1" \in DOMAIN subjects
    /\ ~subjects["s1"].deleted
    /\ subjects["s1"].compatibility = "backward"
    /\ compatibility = "none"
    /\ get_compatibility_sub(subjects, compatibility, "s1") = Ok("backward")
    /\ get_compatibility_sub(clear_compatibility(subjects, "s1").subjects,
                             compatibility, "s1") = Ok("none")

\* C18: the set_compatibility calls and clear_compatibility return true iff
\* the stored value differs after the call; the same call made again at
\* once returns false and leaves the store as it is.
C18_SetClearReportChange ==
    /\ \A level \in Levels :
          LET r == set_compatibility(compatibility, level)
              again == set_compatibility(r.compatibility, level)
          IN /\ r.res = Ok(r.compatibility # compatibility)
             /\ r.compatibility = level
             /\ again.res = Ok(FALSE)
             /\ again.compatibility = r.compatibility
    /\ \A sub \in Subjects, level \in Levels :
          LET r == set_compatibility_sub(subjects, sub, level)
              again == set_compatibility_sub(r.subjects, sub, level)
          IN IF r.res.ok
             THEN /\ r.res.value = (r.subjects # subjects)
                  /\ r.subjects[sub].compatibility = level
                  /\ again.res = Ok(FALSE)
                  /\ again.subjects = r.subjects
             ELSE r.subjects = subjects
    /\ \A sub \in Subjects :
          LET r == clear_compatibility(subjects, sub)
              again == clear_compatibility(r.subjects, sub)
          IN IF r.res.ok
             THEN /\ r.res.value = (r.subjects # subjects)
                  /\ r.subjects[sub].compatibility = "nullopt"
                  /\ again.res = Ok(FALSE)
                  /\ again.subjects = r.subjects
             ELSE r.subjects = subjects

\* An active subject with an override: setting another level and clearing
\* return true, setting the level it has returns false; likewise for the
\* global level.
C18_Witness ==
    /\ "s1" \in DOMAIN subjects
    /\ ~subjects["s1"].deleted
    /\ subjects["s1"].compatibility = "backward"
    /\ compatibility = "backward"
    /\ set_compatibility_sub(subjects, "s1", "none").res = Ok(TRUE)
    /\ set_compatibility_sub(subjects, "s1", "backward").res = Ok(FALSE)
    /\ clear_compatibility(subjects, "s1").res = Ok(TRUE)
    /\ set_compatibility(compatibility, "none").res = Ok(TRUE)
    /\ set_compatibility(compatibility, "backward").res = Ok(FALSE)

\* C19: schemas are never erased. An id for which get_schema succeeds before
\* a step has get_schema succeed after it, whatever the call, the soft and
\* permanent deletes of subjects and versions included.
C19_SchemaIdsOnlyGrow ==
    [][\A id \in DOMAIN schemas :
          get_schema(schemas, id).ok => get_schema(schemas', id).ok]_vars

\* Two schemas are stored and every subject has been deleted permanently.
C19_Witness ==
    /\ DOMAIN schemas = {1, 2}
    /\ DOMAIN subjects = {}
    /\ get_schema(schemas, 1).ok
    /\ get_schema(schemas, 2).ok

\* Every schema stored before the step is stored with the same content after
\* it.
SchemasKept ==
    \A id \in DOMAIN schemas :
        /\ id \in DOMAIN schemas'
        /\ get_schema(schemas', id) = get_schema(schemas, id)

\* The step is a call of insert, of a delete or of a compatibility
\* operation.
CallOtherThanUpsert ==
    \/ \E sub \in Subjects, c \in Contents :
          Insert(sub, c.definition, c.type)
    \/ \E sub \in Subjects, permanent \in BOOLEAN :
          DeleteSubject(sub, permanent)
    \/ \E sub \in Subjects, version \in Versions, permanent \in BOOLEAN,
          inc_del \in BOOLEAN :
          DeleteSubjectVersion(sub, version, permanent, inc_del)
    \/ CompatibilityCalls(Subjects)

\* C20: a stored schema changes only by an upsert at its id. No insert,
\* delete_subject, delete_subject_version or compatibility call changes the
\* (type, definition) that get_schema returns for an id that exists.
C20_SchemaImmutableExceptUpsert ==
    [][SchemasKept \/ ~CallOtherThanUpsert]_vars

\* A store holding a schema at id 1, with a subject that has an override and
\* a soft-deleted version: an insert of new content allocates id 2 and
\* leaves id 1 as it is.
C20_Witness ==
    /\ DOMAIN schemas = {1}
    /\ "s1" \in DOMAIN subjects
    /\ subjects["s1"].compatibility # "nullopt"
    /\ \E i \in 1..Len(subjects["s1"].versions) :
          subjects["s1"].versions[i].deleted
    /\ \E c \in Contents :
          LET r == insert(schemas, subjects, "s1", c.definition, c.type)
          IN /\ r.res.id = 2
             /\ r.schemas[1] = schemas[1]

\* C21: a subject exists from its first insert or upsert until a successful
\* permanent delete_subject, and nothing else removes it. An insert or upsert
\* leaves its subject present; every call other than a successful permanent
\* delete_subject keeps every subject present, a soft delete_subject and the
\* permanent delete of a subject's last version (which leaves an empty
\* version list) included; a successful permanent delete_subject removes its
\* subject and no other.
C21_SubjectLivesUntilPermanentDelete ==
    \A sub \in Subjects :
        /\ \A c \in Contents :
              /\ DOMAIN insert(schemas, subjects, sub, c.definition,
                               c.type).subjects = DOMAIN subjects \cup {sub}
              /\ \A id \in Ids, version \in Versions, deleted \in BOOLEAN :
                    DOMAIN upsert(schemas, subjects, sub, c.definition,
                                  c.type, id, version, deleted).subjects
                        = DOMAIN subjects \cup {sub}
        /\ DOMAIN delete_subject(subjects, sub, FALSE).subjects
              = DOMAIN subjects
        /\ LET r == delete_subject(subjects, sub, TRUE)
           IN DOMAIN r.subjects
                  = IF r.res.ok THEN DOMAIN subjects \ {sub}
                    ELSE DOMAIN subjects
        /\ \A version \in Versions, permanent \in BOOLEAN,
              inc_del \in BOOLEAN :
              LET r == delete_subject_version(subjects, sub, version,
                                              permanent, inc_del)
              IN /\ DOMAIN r.subjects = DOMAIN subjects
                 /\ (r.res.ok /\ permanent
                        /\ Len(VersionsOf(subjects, sub)) = 1)
                       => r.subjects[sub].versions = <<>>
        /\ \A level \in Levels :
              DOMAIN set_compatibility_sub(subjects, sub, level).subjects
                  = DOMAIN subjects
        /\ DOMAIN clear_compatibility(subjects, sub).subjects
              = DOMAIN subjects

\* A soft-deleted subject all of whose versions were deleted permanently: it
\* is present with an empty version list, and its permanent delete removes
\* it.
C21_Witness ==
    /\ "s1" \in DOMAIN subjects
    /\ subjects["s1"].versions = <<>>
    /\ subjects["s1"].deleted
    /\ get_versions(subjects, "s1", TRUE) = Ok(<<>>)
    /\ "s1" \notin DOMAIN delete_subject(subjects, "s1", TRUE).subjects

\* The result carries an error code.
IsError(res) == ~res.ok

\* C22: a store operation that returns an error code leaves the whole store
\* as it was. The lookups are const; a delete_subject,
\* delete_subject_version, per-subject set_compatibility or
\* clear_compatibility that returns an error returns the subjects it was
\* given, and touches neither the schemas nor the global level.
C22_ErrorLeavesStoreUnchanged ==
    \A sub \in Subjects :
        /\ \A permanent \in BOOLEAN :
              LET r == delete_subject(subjects, sub, permanent)
              IN IsError(r.res) => r.subjects = subjects
        /\ \A version \in Versions, permanent \in BOOLEAN,
              inc_del \in BOOLEAN :
              LET r == delete_subject_version(subjects, sub, version,
                                              permanent, inc_del)
              IN IsError(r.res) => r.subjects = subjects
        /\ \A level \in Levels :
              LET r == set_compatibility_sub(subjects, sub, level)
              IN IsError(r.res) => r.subjects = subjects
        /\ LET r == clear_compatibility(subjects, sub)
           IN IsError(r.res) => r.subjects = subjects

\* A soft-deleted subject with an override: its soft delete returns
\* subject_soft_deleted, the set of its level and the delete of a version
\* with include_deleted=no return subject_not_found, while the permanent
\* delete of a version with include_deleted=yes succeeds.
C22_Witness ==
    /\ "s1" \in DOMAIN subjects
    /\ subjects["s1"].deleted
    /\ subjects["s1"].compatibility = "backward"
    /\ delete_subject(subjects, "s1", FALSE).res = Err("subject_soft_deleted")
    /\ set_compatibility_sub(subjects, "s1", "none").res
          = Err("subject_not_found")
    /\ \E version \in Versions :
          delete_subject_version(subjects, "s1", version, TRUE, FALSE).res
              = Err("subject_not_found")
    /\ \E version \in Versions :
          delete_subject_version(subjects, "s1", version, TRUE, TRUE).res.ok

\* C30: every subject-version entry references a schema id that is in the
\* schema map, so get_subject_schema of a version that exists never returns
\* schema_id_not_found.
C30_VersionsReferenceStoredSchemas ==
    \A sub \in DOMAIN subjects :
        \A i \in 1..Len(subjects[sub].versions) :
            LET e == subjects[sub].versions[i]
            IN /\ e.id \in DOMAIN schemas
               /\ get_schema(schemas, e.id).ok
               /\ get_subject_schema(schemas, subjects, sub, e.version,
                                     TRUE).ok

\* A subject whose two versions reference different schemas, one of them
\* written by upsert at an id above the first free one.
C30_Witness ==
    /\ "s1" \in DOMAIN subjects
    /\ Len(subjects["s1"].versions) = 2
    /\ subjects["s1"].versions[1].id = 2
    /\ subjects["s1"].versions[2].id = 1
    /\ get_subject_schema(schemas, subjects, "s1", 1, TRUE).ok
    /\ get_subject_schema(schemas, subjects, "s1", 2, TRUE).ok

\* ------------------------------------------------ claims on the allocator

\* The nodes of a list of replicas.
NodesOf(replicas) == {replicas[i].node_id : i \in 1..Len(replicas)}

\* How many times the pair (n, s) occurs in a list of replicas.
Count(replicas, n, s) ==
    Cardinality({i \in 1..Len(replicas) :
                    replicas[i] = broker_shard(n, s)})

\* The replicas of a list of assignments, in one list.
RECURSIVE Flatten(_)
Flatten(assignments) ==
    IF assignments = <<>> THEN <<>>
    ELSE Head(assignments) \o Flatten(Tail(assignments))

\* Every replica of the list is a reservation the state holds.
Held(N, replicas) ==
    \A n \in NodeIds, s \in ShardIds :
        Count(replicas, n, s) > 0 =>
            n \in DOMAIN N /\ Count(replicas, n, s) <= N[n].used[s]

\* The state with every replica of the list released once.
Without(N, replicas) ==
    [n \in DOMAIN N |->
        [N[n] EXCEPT !.used =
            [s \in ShardIds |-> N[n].used[s] - Count(replicas, n, s)]]]

\* C23: scoped rollback. For a scope whose staged placements are
\* reservations the state holds, made in the scope or found in the state:
\* when the scope ends without finish, the
\* destructor passes every staged placement to rollback, and each is
\* released exactly once; after finish, or for an accumulator that was moved
\* from, the placements are with the caller and the destructor releases
\* none of them.
C23_ScopedRollbackExactlyOnce ==
    /\ \A replicas \in Assignments :
          NodesOf(replicas) \subseteq DOMAIN nodes =>
             LET staged == record(nodes, replicas)
                 ia == [intermediate_allocation EXCEPT !.partial = replicas]
                 f == finish(ia)
             IN /\ destructor(staged, ia) = nodes
                /\ f.result = replicas
                /\ destructor(staged, f.ia) = staged
                /\ destructor(staged, move(ia).from) = staged
                /\ destructor_assignments(
                      staged,
                      [intermediate_allocation EXCEPT !.partial = <<replicas>>])
                      = nodes
    /\ \A replicas \in Assignments :
          Held(nodes, replicas) =>
             LET ia == [intermediate_allocation EXCEPT !.partial = replicas]
                 f == finish(ia)
                 m == move(ia)
             IN /\ get(ia) = replicas
                /\ destructor(nodes, ia) = Without(nodes, replicas)
                /\ f.result = replicas
                /\ get(f.ia) = <<>>
                /\ destructor(nodes, f.ia) = nodes
                /\ destructor(nodes, m.from) = nodes
                /\ destructor(nodes, m.to) = Without(nodes, replicas)
    /\ \A a \in Assignments : \A b \in {<<>>, a} :
          LET staged == IF b = <<>> THEN <<a>> ELSE <<a, b>>
              ia == [intermediate_allocation EXCEPT !.partial = staged]
              f == finish(ia)
          IN Held(nodes, Flatten(staged)) =>
                /\ destructor_assignments(nodes, ia)
                      = Without(nodes, Flatten(staged))
                /\ f.result = staged
                /\ destructor_assignments(nodes, f.ia) = nodes
                /\ destructor_assignments(nodes, move(ia).from) = nodes

\* A state that holds two partitions with replicas on nodes 1 and 2: the
\* scope that staged them releases all four reservations when it ends
\* without finish and none after finish.
C23_Witness ==
    \E a \in Assignments :
        /\ Len(a) = 2
        /\ Held(nodes, a \o a)
        /\ destructor_assignments(
              nodes, [intermediate_allocation EXCEPT !.partial = <<a, a>>])
              # nodes
        /\ destructor_assignments(
              nodes,
              finish([intermediate_allocation
                         EXCEPT !.partial = <<a, a>>]).ia) = nodes

\* C24: allocate is atomic on failure. An allocate that returns an error
\* leaves the allocation state, every counter and the membership, as it was
\* before the call, also when partitions of the request were placed before
\* the one that failed.
C24_FailedAllocateLeavesStateUnchanged ==
    \A partitions \in 1..MaxPartitions,
       replication_factor \in 1..MaxReplication :
        \A o \in allocate(nodes, partitions, replication_factor) :
            ~o.res.ok => o.nodes = nodes

\* A state in which a request of one partition succeeds and the same request
\* with two partitions fails: the first partition was placed before the
\* second one failed.
C24_Witness ==
    \E replication_factor \in 1..MaxReplication :
        /\ \A o \in allocate(nodes, 1, replication_factor) : o.res.ok
        /\ \E o \in allocate(nodes, 2, replication_factor) :
              ~o.res.ok /\ o.nodes = nodes
        /\ \E n \in DOMAIN nodes, s \in ShardIds : nodes[n].used[s] > 0

\* Every shard of every node holds between 0 and MaxCapacity partitions.
WithinCapacity(N) ==
    \A n \in DOMAIN N, s \in ShardIds :
        0 <= N[n].used[s] /\ N[n].used[s] <= MaxCapacity

C26_ReplicasOnDistinctNodes ==
    \A partitions \in 1..MaxPartitions,
       replication_factor \in 1..MaxReplication :
        \A o \in allocate(nodes, partitions, replication_factor) :
            /\ o.res.ok =>
                  /\ Len(o.res.value) = partitions
                  /\ \A p \in 1..partitions :
                        /\ Len(o.res.value[p]) = replication_factor
                        /\ Cardinality(NodesOf(o.res.value[p]))
                              = replication_factor
                        /\ NodesOf(o.res.value[p]) \subseteq eligible(nodes, {})
            /\ Cardinality(eligible(nodes, {})) < replication_factor =>
                  /\ o.res = Err("insufficient_capacity")
                  /\ o.nodes = nodes

\* Two registered nodes with nothing assigned and no third node: a partition
\* of three replicas is refused, one of two replicas is placed.
C26_Witness ==
    /\ DOMAIN nodes = {1, 2}
    /\ \A n \in DOMAIN nodes : is_empty(nodes, n) /\ ~nodes[n].decommissioned
    /\ \A o \in allocate(nodes, 1, 3) :
          o.res = Err("insufficient_capacity") /\ o.nodes = nodes
    /\ \E o \in allocate(nodes, 1, 2) :
          o.res.ok /\ NodesOf(o.res.value[1]) = {1, 2}

\* The replica sits on a node that is marked decommissioned.
OnDecommissioned(N, bs) ==
    bs.node_id \in DOMAIN N /\ N[bs.node_id].decommissioned

\* C27: reassign_decommissioned_replicas changes only the replicas on
\* decommissioned nodes. Every other replica of the input is in the result
\* with its node and shard, every replica of the result that is not in the
\* input sits on a node that is registered and not decommissioned, and a
\* call that returns an error leaves the allocation state as it was; the
\* error is returned when fewer nodes are eligible than replicas are to be
\* replaced.
C27_ReassignTouchesOnlyDecommissioned ==
    \A replicas \in Assignments :
        LET moving == {i \in 1..Len(replicas) :
                          OnDecommissioned(nodes, replicas[i])}
        IN \A o \in reassign_decommissioned_replicas(nodes, replicas) :
              /\ o.res.ok =>
                    /\ Len(o.res.value) = Len(replicas)
                    /\ Cardinality(NodesOf(o.res.value)) = Len(replicas)
                    /\ \A i \in 1..Len(replicas) :
                          i \notin moving =>
                             \E j \in 1..Len(o.res.value) :
                                 o.res.value[j] = replicas[i]
                    /\ \A j \in 1..Len(o.res.value) :
                          \/ \E i \in 1..Len(replicas) :
                                i \notin moving /\ o.res.value[j] = replicas[i]
                          \/ /\ o.res.value[j].node_id \in DOMAIN nodes
                             /\ ~OnDecommissioned(nodes, o.res.value[j])
                             /\ o.res.value[j].node_id \notin NodesOf(replicas)
              /\ ~o.res.ok => o.nodes = nodes
              /\ ~o.res.ok
                    <=> Cardinality(eligible(nodes, NodesOf(replicas)))
                           < Cardinality(moving)

\* Node 1 is decommissioned and holds a replica, node 2 holds the other
\* replica of the partition and node 3 has room: the replica of node 1 moves
\* to node 3 and the one on node 2 stays.
C27_Witness ==
    /\ DOMAIN nodes = {1, 2, 3}
    /\ nodes[1].decommissioned /\ nodes[1].used[0] > 0
    /\ ~nodes[2].decommissioned /\ nodes[2].used[1] > 0
    /\ ~nodes[3].decommissioned
    /\ \E o \in reassign_decommissioned_replicas(
                   nodes, <<broker_shard(1, 0), broker_shard(2, 1)>>) :
          /\ o.res.ok
          /\ o.res.value[1] = broker_shard(2, 1)
          /\ o.res.value[2].node_id = 3

\* Nothing is assigned at the pair: the node is unknown or the shard is
\* empty.
Absent(N, bs) == bs.node_id \notin DOMAIN N \/ N[bs.node_id].used[bs.shard] = 0

NothingPlacedOn(N, id) ==
    /\ \A partitions \in 1..MaxPartitions,
          replication_factor \in 1..MaxReplication :
          \A o \in allocate(N, partitions, replication_factor) :
              id \in DOMAIN N => o.nodes[id] = N[id]
    /\ \A replicas \in Assignments :
          \A o \in reassign_decommissioned_replicas(N, replicas) :
              id \in DOMAIN N => o.nodes[id] = N[id]

\* The states one node call other than recommission_node(id) away from N.
AfterNodeCall(N, id) ==
    {N} \cup {register_node(N, n) : n \in NodeIds}
        \cup {unregister_node(N, n) : n \in NodeIds}
        \cup {decommission_node(N, n) : n \in NodeIds}
        \cup {recommission_node(N, n) : n \in NodeIds \ {id}}

\* C29 as stated: once decommission_node(id) was called, and as long as
\* recommission_node(id) is not, no allocate or reassign places a replica on
\* id, whatever other calls are made in between; decommission_node changes
\* none of the node's counters.
C29_NoPlacementUntilRecommission ==
    \A id \in DOMAIN nodes :
        /\ decommission_node(nodes, id)[id].used = nodes[id].used
        /\ nodes[id].decommissioned =>
              \A N1 \in AfterNodeCall(nodes, id) :
                 \A N2 \in AfterNodeCall(N1, id) :
                    NothingPlacedOn(N2, id)

\* C29 with the node's removal: decommission_node(id) marks the node and
\* changes none of its counters; while the node is marked, no allocate or
\* reassign places a replica on it; the mark is removed by
\* recommission_node(id), and otherwise only together with the node, by
\* unregister_node(id) once the node is empty, after which a node registered
\* under the same id is eligible.
C29_NoPlacementWhileDecommissioned ==
    \A id \in DOMAIN nodes :
        /\ decommission_node(nodes, id)[id].used = nodes[id].used
        /\ decommission_node(nodes, id)[id].decommissioned
        /\ NothingPlacedOn(decommission_node(nodes, id), id)
        /\ nodes[id].decommissioned =>
              /\ NothingPlacedOn(nodes, id)
              /\ ~recommission_node(nodes, id)[id].decommissioned
              /\ \A N1 \in AfterNodeCall(nodes, id) :
                    \/ id \in DOMAIN N1 /\ N1[id].decommissioned
                    \/ /\ N1 = unregister_node(nodes, id)
                       /\ is_empty(nodes, id)
                       /\ id \notin DOMAIN N1
                       /\ ~register_node(N1, id)[id].decommissioned
              /\ \A replicas \in Assignments :
                    /\ deallocate(nodes, replicas)[id].decommissioned
                    /\ \A o \in reassign_decommissioned_replicas(nodes,
                                                                 replicas) :
                          o.nodes[id].decommissioned
              /\ \A partitions \in 1..MaxPartitions,
                    replication_factor \in 1..MaxReplication :
                    \A o \in allocate(nodes, partitions, replication_factor) :
                        o.nodes[id].decommissioned

\* Node 1 is the only node, decommissioned and holding a partition: allocate
\* fails, and places a replica on node 1 once it is recommissioned.
C29_Witness ==
    /\ DOMAIN nodes = {1}
    /\ nodes[1].decommissioned
    /\ nodes[1].used[0] = 1
    /\ \A o \in allocate(nodes, 1, 1) : ~o.res.ok /\ o.nodes = nodes
    /\ \E o \in allocate(recommission_node(nodes, 1), 1, 1) :
          o.res.ok /\ o.nodes[1].used[0] = 2

\* --------------------------------------------------------------------- C31

\* The subject is present and not deleted, and get_versions(sub,
\* include_deleted=no) succeeds and returns every version whose own deleted
\* flag is no.
SubjectUndeleted(U, sub) ==
    /\ sub \in DOMAIN U
    /\ ~U[sub].deleted
    /\ LET r == get_versions(U, sub, FALSE)
           versions == U[sub].versions
       IN /\ r.ok
          /\ \A i \in 1..Len(versions) :
                ~versions[i].deleted
                    => \E j \in 1..Len(r.value) :
                          r.value[j] = versions[i].version

\* C31: any insert or upsert into a soft-deleted subject, whether it adds a
\* version or hits an existing one, and for upsert with deleted=yes as well,
\* clears the subject's deleted flag; afterwards get_versions(sub,
\* include_deleted=no) returns every version whose own deleted flag is no.
C31_WriteUndeletesSubject ==
    \A sub \in DOMAIN subjects :
        subjects[sub].deleted =>
            /\ \A c \in Contents :
                  SubjectUndeleted(
                      insert(schemas, subjects, sub, c.definition,
                             c.type).subjects, sub)
            /\ \A c \in Contents, id \in Ids, version \in Versions,
                  deleted \in BOOLEAN :
                  SubjectUndeleted(
                      upsert(schemas, subjects, sub, c.definition, c.type,
                             id, version, deleted).subjects, sub)

\* A soft-deleted subject holding a version whose own flag is no, hidden by
\* get_versions(include_deleted=no) until an upsert made with deleted=yes at
\* another version undeletes the subject and makes it listed again.
C31_Witness ==
    \E sub \in DOMAIN subjects :
        /\ subjects[sub].deleted
        /\ ~get_versions(subjects, sub, FALSE).ok
        /\ \E i \in 1..Len(subjects[sub].versions) :
              /\ ~subjects[sub].versions[i].deleted
              /\ \E c \in Contents, id \in Ids, version \in Versions :
                    LET r == upsert(schemas, subjects, sub, c.definition,
                                    c.type, id, version, TRUE)
                        v == get_versions(r.subjects, sub, FALSE)
                    IN /\ version # subjects[sub].versions[i].version
                       /\ ~r.subjects[sub].deleted
                       /\ v.ok
                       /\ \E j \in 1..Len(v.value) :
                             v.value[j] = subjects[sub].versions[i].version

\* --------------------------------------------------------------------- C32

\* C32: on a soft-deleted subject get_compatibility(sub) and
\* set_compatibility(sub, c) return subject_not_found and leave the override
\* as it was, whereas clear_compatibility(sub) does not look at the deleted
\* flag: it removes the override and returns whether one was set.
C32_SoftDeletedSubjectCompatibility ==
    \A sub \in DOMAIN subjects :
        subjects[sub].deleted =>
            /\ get_compatibility_sub(subjects, compatibility, sub)
                  = Err("subject_not_found")
            /\ \A level \in Levels :
                  LET r == set_compatibility_sub(subjects, sub, level)
                  IN /\ r.res = Err("subject_not_found")
                     /\ r.subjects = subjects
            /\ LET r == clear_compatibility(subjects, sub)
               IN /\ r.res = Ok(subjects[sub].compatibility # "nullopt")
                  /\ r.subjects[sub].compatibility = "nullopt"
                  /\ r.subjects =
                        [subjects EXCEPT ![sub].compatibility = "nullopt"]

\* A soft-deleted subject with an override: get and set are refused, clear
\* removes the override and reports the change.
C32_Witness ==
    \E sub \in DOMAIN subjects :
        /\ subjects[sub].deleted
        /\ subjects[sub].compatibility \in Levels
        /\ ~get_compatibility_sub(subjects, compatibility, sub).ok
        /\ clear_compatibility(subjects, sub).res = Ok(TRUE)
        /\ clear_compatibility(subjects, sub).subjects[sub].compatibility
              = "nullopt"

\* --------------------------------------------------------------------- C33

\* The stores a write to sub can leave: every insert and every upsert.
AfterWrite(S, U, sub) ==
    {insert(S, U, sub, c.definition, c.type).subjects : c \in Contents}
    \cup {upsert(S, U, sub, c.definition, c.type, id, version,
                 deleted).subjects :
              c \in Contents, id \in Ids, version \in Versions,
              deleted \in BOOLEAN}

\* C33: the override of a subject survives a soft delete followed by an
\* undelete-on-write, get_compatibility(sub) returning afterwards what it
\* returned before; a permanent delete loses it, and the subject re-created
\* by a write after the permanent delete has no override and falls back to
\* the global level.
C33_OverrideSurvivesSoftDeleteOnly ==
    \A sub \in DOMAIN subjects :
        ~subjects[sub].deleted =>
            LET before == get_compatibility_sub(subjects, compatibility, sub)
                soft == delete_subject(subjects, sub, FALSE)
                perm == delete_subject(soft.subjects, sub, TRUE)
            IN /\ soft.res.ok
               /\ soft.subjects[sub].compatibility
                     = subjects[sub].compatibility
               /\ \A U \in AfterWrite(schemas, soft.subjects, sub) :
                     /\ U[sub].compatibility = subjects[sub].compatibility
                     /\ get_compatibility_sub(U, compatibility, sub) = before
               /\ perm.res.ok
               /\ sub \notin DOMAIN perm.subjects
               /\ \A U \in AfterWrite(schemas, perm.subjects, sub) :
                     /\ U[sub].compatibility = "nullopt"
                     /\ get_compatibility_sub(U, compatibility, sub)
                           = Ok(compatibility)

\* A subject whose override differs from the global level: the override is
\* returned after soft delete and insert, the global level after soft
\* delete, permanent delete and insert.
C33_Witness ==
    \E sub \in DOMAIN subjects :
        /\ ~subjects[sub].deleted
        /\ subjects[sub].compatibility \in Levels \ {compatibility}
        /\ LET soft == delete_subject(subjects, sub, FALSE)
               perm == delete_subject(soft.subjects, sub, TRUE)
           IN \E c \in Contents :
                 /\ get_compatibility_sub(
                        insert(schemas, soft.subjects, sub, c.definition,
                               c.type).subjects, compatibility, sub)
                       = Ok(subjects[sub].compatibility)
                 /\ get_compatibility_sub(
                        insert(schemas, perm.subjects, sub, c.definition,
                               c.type).subjects, compatibility, sub)
                       = Ok(compatibility)

\* --------------------------------------------------------------------- C34

\* resources[i] names a topic that an earlier resource of the request names.
Duplicates(resources, i) ==
    \E j \in 1..(i - 1) :
        resources[j].resource_name = resources[i].resource_name

\* The resources of the request that are the first to name their topic, in
\* request order.
FirstOccurrences(resources) ==
    LET RECURSIVE from(_)
        from(i) ==
            IF i > Len(resources) THEN <<>>
            ELSE IF Duplicates(resources, i) THEN from(i + 1)
            ELSE <<resources[i]>> \o from(i + 1)
    IN from(1)

\* The number of responses in v for the topic name with the error code.
Answered(v, name, code) ==
    Cardinality({k \in 1..Len(v) :
                    /\ v[k].resource_name = name
                    /\ v[k].error_code = code})

\* The number of elements of v equal to x.
Occurrences(v, x) == Cardinality({k \in 1..Len(v) : v[k] = x})

\* C34: every resource whose topic name duplicates an earlier resource of
\* the same request is answered with invalid_config (duplicated topic) and
\* is passed neither to the validation function nor to
\* update_topic_properties; only the first occurrence of each topic name
\* is processed.
C34_DuplicatedTopicsRejected ==
    \A resources \in Requests("topic"), validate_only \in BOOLEAN :
        LET r == do_alter_topics_configuration(topics, resources,
                                               validate_only)
        IN /\ r.validated = FirstOccurrences(resources)
           /\ r.invoked => r.updates = updates_of(FirstOccurrences(resources))
           /\ \A name \in ResourceNames :
                 Cardinality({k \in 1..Len(r.responses) :
                     /\ r.responses[k].resource_name = name
                     /\ r.responses[k].error_code = "invalid_config"
                     /\ r.responses[k].error_message =
                           "duplicated topic {} alter config request"})
                 = Cardinality({i \in 1..Len(resources) :
                                  /\ resources[i].resource_name = name
                                  /\ Duplicates(resources, i)})

\* --------------------------------------------------------------------- C35

\* C35: with validate_only=true do_alter_topics_configuration never invokes
\* update_topic_properties and leaves the topic table as it was; it returns
\* one response per resource: for each invalid resource the error the
\* validation function produced, for each valid one error_code::none.
C35_ValidateOnlyAppliesNothing ==
    \A resources \in Requests("topic") :
        LET r == do_alter_topics_configuration(topics, resources, TRUE)
        IN /\ ~r.invoked
           /\ r.updates = <<>>
           /\ r.topics = topics
           /\ Len(r.responses) = Len(resources)
           /\ \A name \in ResourceNames :
                 Answered(r.responses, name, "none")
                 = Cardinality({i \in 1..Len(resources) :
                                  /\ resources[i].resource_name = name
                                  /\ f_validate(resources[i]).ok})
           /\ \A i \in 1..Len(resources) :
                 ~f_validate(resources[i]).ok =>
                     Occurrences(r.responses, f_validate(resources[i]).error)
                     = Cardinality({j \in 1..Len(resources) :
                                      /\ ~f_validate(resources[j]).ok
                                      /\ f_validate(resources[j]).error
                                            = f_validate(resources[i]).error})

\* A topic whose property an earlier request changed, and the responses of
\* a validate-only request with a valid and an invalid resource: one error
\* of the validation, one error_code::none, the property left as it was.
C35_Witness ==
    \E resources \in Requests("topic") :
        LET r == do_alter_topics_configuration(topics, resources, TRUE)
        IN /\ Len(resources) = 2
           /\ \E i, j \in 1..2 :
                 /\ resources[i].value = "bad"
                 /\ resources[j].value = "delete"
                 /\ resources[j].resource_name \in Topics
                 /\ topics[resources[j].resource_name] = "compact"
           /\ responses = r.responses
           /\ \E a, b \in 1..2 :
                 /\ responses[a].error_code = "invalid_config"
                 /\ responses[b].error_code = "none"
           /\ r.topics = topics

\* --------------------------------------------------------------------- C36

\* disable_response_code
DisableCodes == {"success", "internal_error", "script_id_does_not_exist"}

\* C36: the per-shard results of disabling a script are combined
\* independently of the order of the shards: service::remove returns
\* internal_error if any shard raised an exception, otherwise success if at
\* least one shard removed the script, otherwise script_id_does_not_exist;
\* the reducer is commutative and associative and has
\* script_id_does_not_exist as identity.
C36_RemoveCombinesInAnyOrder ==
    /\ \A id \in ScriptIds, throwing \in SUBSET RouterShards :
          \A order \in Orders :
              remove(sources, id, throwing, order).res =
                  IF throwing # {} THEN "internal_error"
                  ELSE IF \E shard \in RouterShards : id \in sources[shard]
                  THEN "success"
                  ELSE "script_id_does_not_exist"
    /\ \A a, b \in DisableCodes :
          /\ reducer(a, b) = reducer(b, a)
          /\ reducer("script_id_does_not_exist", a) = a
          /\ reducer(a, "script_id_does_not_exist") = a
          /\ \A c \in DisableCodes :
                reducer(reducer(a, b), c) = reducer(a, reducer(b, c))

\* A script that runs on one shard and not on another: its removal reports
\* success in every order, internal_error in every order when the last
\* shard to complete raises, and the removal of a script that runs nowhere
\* reports script_id_does_not_exist.
C36_Witness ==
    \E id, other \in ScriptIds :
        /\ \E shard, idle \in RouterShards :
              /\ id \in sources[shard]
              /\ id \notin sources[idle]
        /\ ~copro_exists(sources, other)
        /\ \A order \in Orders :
              /\ remove(sources, id, {}, order).res = "success"
              /\ remove(sources, id, {order[Len(order)]}, order).res
                    = "internal_error"
              /\ remove(sources, other, {}, order).res
                    = "script_id_does_not_exist"
        /\ \E order \in Orders :
              ~copro_exists(remove(sources, id, {}, order).sources, id)

====
